---- MODULE Spec2Model ----
(***************************************************************************)
(* Model of the RLVR translation service: the epsilon-greedy prompt        *)
(* bandit (rlvr/optimizer/bandit.py), and the /translate pipeline of the   *)
(* server (rlvr/server/api.py) that drives it.                             *)
(*                                                                         *)
(* Python floats are modelled as exact rationals <<numerator, denominator>>*)
(* in lowest terms with a positive denominator.                            *)
(***************************************************************************)
EXTENDS Integers, Sequences, FiniteSets, TLC

(***************************************************************************)
(* Bounds of the model.                                                    *)
(***************************************************************************)
\* number of calls made on the stand-alone bandit
MaxCalls == 4
\* number of segments the server receives, over all requests
MaxSegments == 2
MaxMetrics == 3
MaxScores == 2
MaxK == 3
MaxEvents == 4
MaxWords == 3
MaxText == 5
MaxExamples == 51

(***************************************************************************)
(* Rational arithmetic (the float operations of the code).                 *)
(***************************************************************************)
Abs(x) == IF x < 0 THEN -x ELSE x

RECURSIVE GCD(_, _)
GCD(a, b) == IF b = 0 THEN a ELSE GCD(b, a % b)

Norm(q) ==
    IF q[1] = 0 THEN <<0, 1>>
    ELSE LET g == GCD(Abs(q[1]), q[2]) IN <<q[1] \div g, q[2] \div g>>

RAdd(a, b) == Norm(<<a[1] * b[2] + b[1] * a[2], a[2] * b[2]>>)
RSub(a, b) == Norm(<<a[1] * b[2] - b[1] * a[2], a[2] * b[2]>>)
RMul(a, b) == Norm(<<a[1] * b[1], a[2] * b[2]>>)
RDivInt(a, n) == Norm(<<a[1], a[2] * n>>)
RLt(a, b) == a[1] * b[2] < b[1] * a[2]
RLe(a, b) == a[1] * b[2] <= b[1] * a[2]

Zero == <<0, 1>>
Half == <<1, 2>>
One == <<1, 1>>

Range(s) == {s[i] : i \in 1..Len(s)}

(***************************************************************************)
(* EpsilonGreedyBandit                                                     *)
(***************************************************************************)
\* save_state keeps history[-100:]
HistoryTail == 100

\* EpsilonGreedyBandit.__init__
NewBandit(prompts, epsilon, initial_value) ==
    [prompts |-> prompts,
     epsilon |-> epsilon,
     values |-> [p \in Range(prompts) |-> initial_value],
     counts |-> [p \in Range(prompts) |-> 0],
     total_selections |-> 0,
     history |-> <<>>]

\* the comparison max() makes between a later item and the best so far
IsBetterLast(cand, best) == ~RLt(cand, best)

IsBetter(cand, best) == RLt(best, cand)

\* max(self.prompts, key=lambda p: self.values[p]): the first maximal item
RECURSIVE MaxFrom(_, _, _, _)
MaxFrom(prompts, values, i, best) ==
    IF i > Len(prompts) THEN best
    ELSE MaxFrom(prompts, values, i + 1,
                 IF IsBetter(values[prompts[i]], values[best])
                 THEN prompts[i] ELSE best)

PyMax(prompts, values) == MaxFrom(prompts, values, 2, prompts[1])

\* EpsilonGreedyBandit.pick; u is the value of random.random(), i the index
\* random.choice draws.  Returns the bandit after the call and the prompt.
BanditPick(b, u, i) ==
    LET total == b.total_selections + 1
        explore == RLt(u, b.epsilon)
        prompt == IF explore THEN b.prompts[i] ELSE PyMax(b.prompts, b.values)
        entry == [selection |-> total,
                  prompt |-> prompt,
                  type |-> IF explore THEN "explore" ELSE "exploit",
                  value |-> b.values[prompt]]
    IN [bandit |-> [b EXCEPT !.total_selections = total,
                             !.history = Append(@, entry)],
        prompt |-> prompt]

\* old_value + (reward - old_value) / n
IncrementalMeanNoDiv(old_value, reward, n) ==
    RAdd(old_value, RSub(reward, old_value))

IncrementalMeanAdd(old_value, reward, n) ==
    RAdd(old_value, RDivInt(reward, n))

IncrementalMean(old_value, reward, n) ==
    RAdd(old_value, RDivInt(RSub(reward, old_value), n))

\* the known-prompt branch of update
ApplyUpdate(b, prompt, reward) ==
    LET n == b.counts[prompt] + 1
        new_value == IncrementalMean(b.values[prompt], reward, n)
        entry == [selection |-> b.total_selections,
                  prompt |-> prompt,
                  type |-> "update",
                  reward |-> reward,
                  new_value |-> new_value,
                  count |-> n]
    IN [b EXCEPT !.counts[prompt] = n,
                 !.values[prompt] = new_value,
                 !.history = Append(@, entry)]

\* an update that records the call before it validates the prompt
BanditUpdateLogFirst(b, prompt, reward) ==
    IF prompt \notin Range(b.prompts)
    THEN [bandit |-> [b EXCEPT !.history =
                         Append(@, [selection |-> b.total_selections,
                                    prompt |-> prompt,
                                    type |-> "update",
                                    reward |-> reward])],
          error |-> "ValueError"]
    ELSE [bandit |-> ApplyUpdate(b, prompt, reward), error |-> "none"]

\* EpsilonGreedyBandit.update: the bandit after the call, and what it raised
BanditUpdate(b, prompt, reward) ==
    IF prompt \notin Range(b.prompts)
    THEN [bandit |-> b, error |-> "ValueError"]
    ELSE [bandit |-> ApplyUpdate(b, prompt, reward), error |-> "none"]

\* history[-100:]
LastEntries(history, n) ==
    IF Len(history) <= n THEN history
    ELSE SubSeq(history, Len(history) - n + 1, Len(history))

\* the order in which a dict built from the prompt list holds its keys:
\* each prompt at its first occurrence
RECURSIVE DictKeys(_)
DictKeys(prompts) ==
    IF prompts = <<>> THEN <<>>
    ELSE LET front == DictKeys(SubSeq(prompts, 1, Len(prompts) - 1))
             last == prompts[Len(prompts)]
         IN IF last \in Range(front) THEN front ELSE Append(front, last)

\* json.dump of a dict: a JSON object, its members in key order
JsonObject(dict, keys) == [i \in 1..Len(keys) |-> <<keys[i], dict[keys[i]]>>]

\* json.load of a JSON object: the dict of its members
JsonDict(members) ==
    [k \in {members[i][1] : i \in 1..Len(members)} |->
        LET i == CHOOSE j \in 1..Len(members) :
                   /\ members[j][1] = k
                   /\ \A l \in (j + 1)..Len(members) : members[l][1] # k
        IN members[i][2]]

\* EpsilonGreedyBandit.save_state: the JSON document written
SaveState(b) ==
    [prompts |-> b.prompts,
     epsilon |-> b.epsilon,
     values |-> JsonObject(b.values, DictKeys(b.prompts)),
     counts |-> JsonObject(b.counts, DictKeys(b.prompts)),
     total_selections |-> b.total_selections,
     history |-> LastEntries(b.history, HistoryTail)]

\* a load_state that does not restore the selection counter
LoadStateNoTotal(b, doc) ==
    [b EXCEPT !.prompts = doc.prompts,
              !.epsilon = doc.epsilon,
              !.values = JsonDict(doc.values),
              !.counts = JsonDict(doc.counts),
              !.history = doc.history]

\* EpsilonGreedyBandit.load_state
LoadState(b, doc) ==
    [prompts |-> doc.prompts,
     epsilon |-> doc.epsilon,
     values |-> JsonDict(doc.values),
     counts |-> JsonDict(doc.counts),
     total_selections |-> doc.total_selections,
     history |-> doc.history]

(***************************************************************************)
(* Scoring: rlvr/utils/scoring.py and score_text of rlvr/gym/run.py        *)
(***************************************************************************)
\* aggregate_scores: the loop over component_scores, from entry i on
RECURSIVE WeightedTotals(_, _, _, _, _)
WeightedTotals(component_scores, weights, i, total, total_weight) ==
    IF i > Len(component_scores)
    THEN [total |-> total, total_weight |-> total_weight]
    ELSE LET name == component_scores[i].name
             score == component_scores[i].score
         IN IF name \in DOMAIN weights
            THEN WeightedTotals(component_scores, weights, i + 1,
                                RAdd(total, RMul(weights[name], score)),
                                RAdd(total_weight, weights[name]))
            ELSE WeightedTotals(component_scores, weights, i + 1,
                                total, total_weight)

\* rational division total / total_weight
RDiv(a, b) == Norm(<<a[1] * b[2], a[2] * b[1]>>)

RECURSIVE SumValues(_, _)
SumValues(f, D) ==
    IF D = {} THEN Zero
    ELSE LET d == CHOOSE x \in D : TRUE
         IN RAdd(f[d], SumValues(f, D \ {d}))

\* an aggregate that normalises by the weight of every metric of the table
aggregate_scoresAllWeights(component_scores, weights) ==
    LET t == WeightedTotals(component_scores, weights, 1, Zero, Zero)
        all == SumValues(weights, DOMAIN weights)
    IN IF RLt(Zero, all) THEN RDiv(t.total, all) ELSE Zero

aggregate_scores(component_scores, weights) ==
    LET t == WeightedTotals(component_scores, weights, 1, Zero, Zero)
    IN IF RLt(Zero, t.total_weight) THEN RDiv(t.total, t.total_weight)
       ELSE Zero

(***************************************************************************)
(* The server: rlvr/server/api.py                                          *)
(***************************************************************************)
\* candidate texts a generator can return, and what each metric of a
\* language pack says of them: Fluent passes every metric, Flawed fails the
\* first metric of the pack
Fluent == "Ua pau ka ho'ike."
Flawed == "'A'ole ua."
Texts == {Fluent, Flawed}

\* the language packs lang/<code>/<code>.yaml on disk
PacksOnDisk == {"haw", "en", "k0", "km", "bm", "bg"}
LangCodes == {"haw", "en", "k0", "km", "bm", "bg", "xx"}
Modes == {"standard", "rlvr", "showcase"}
\* the <<src, tgt>> pairs of the requests sent
Directions ==
    {<<"en", "haw">>, <<"en", "k0">>, <<"xx", "haw">>, <<"en", "xx">>,
     <<"en", "km">>, <<"en", "bm">>, <<"en", "bg">>}

\* the modes of the requests sent in each direction
ModesSent(d) == IF d = <<"en", "haw">> THEN Modes ELSE {"rlvr"}
\* the language codes GET /stats is asked about
StatsCodes == {"haw", "k0", "xx"}

\* haw and en are the packs of the repository; k0 is a pack that asks for
\* no candidates (generator.params.k_samples: 0), km a pack of the mock
\* generator with k_samples: -1, bm a pack that names a
\* metric its module does not define, bg a pack with a generator kind that
\* load_generator does not know
PackFile(lang) ==
    IF lang = "haw"
    THEN [metrics |-> <<"diacritics", "tam_particles", "articles_ke_ka">>,
          weights |-> [diacritics |-> <<2, 5>>, tam_particles |-> <<2, 5>>,
                       articles_ke_ka |-> <<1, 5>>],
          prompt_template |-> "haw:{src}",
          k_samples |-> 2,
          kind |-> "llm"]
    ELSE IF lang = "k0"
    THEN [metrics |-> <<"diacritics">>,
          weights |-> [diacritics |-> <<1, 1>>],
          prompt_template |-> "k0:{src}",
          k_samples |-> 0,
          kind |-> "llm"]
    ELSE IF lang = "km"
    THEN [metrics |-> <<"diacritics">>,
          weights |-> [diacritics |-> <<1, 1>>],
          prompt_template |-> "km:{src}",
          k_samples |-> -1,
          kind |-> "mock"]
    ELSE IF lang = "bm"
    THEN [metrics |-> <<"diacritics", "no_such_metric">>,
          weights |-> [diacritics |-> <<1, 1>>],
          prompt_template |-> "bm:{src}",
          k_samples |-> 2,
          kind |-> "mock"]
    ELSE IF lang = "bg"
    THEN [metrics |-> <<"diacritics">>,
          weights |-> [diacritics |-> <<1, 1>>],
          prompt_template |-> "bg:{src}",
          k_samples |-> 2,
          kind |-> "remote"]
    ELSE [metrics |-> <<"articles_a_an", "spelling">>,
          weights |-> [articles_a_an |-> <<1, 2>>, spelling |-> <<1, 2>>],
          prompt_template |-> "en:{src}",
          k_samples |-> 2,
          kind |-> "llm"]

\* the metric names for which load_metric finds a class
MetricClasses ==
    {"diacritics", "tam_particles", "articles_ke_ka", "articles_a_an",
     "spelling", "subject_verb_agreement", "punctuation"}

\* load_metric and load_generator raise ValueError for a name without a
\* class and for a generator kind that is neither llm nor mock
load_metricRaises(metric_name) == metric_name \notin MetricClasses
load_generatorRaises(lang_cfg) == lang_cfg.kind \notin {"llm", "mock"}
\* the generator load_generator returns: the mock generator for kind mock,
\* the generator of the LLM (or the mock generator in its place) for llm
load_generator(lang_cfg) ==
    IF lang_cfg.kind = "mock" THEN "mock" ELSE "generator"

\* metric.score(text, src) for the metrics loaded for a pack
MetricResult(metrics, i, text) ==
    [name |-> metrics[i],
     version |-> "1.0",
     score |-> IF text = Flawed /\ i = 1 THEN Zero ELSE One,
     details |-> [checked |-> 1]]

\* metrics whose score() raises, and the message of the exception
RaisingMetrics == {"broken_a", "broken_b"}
MetricError(metrics, i, text) ==
    IF metrics[i] \in RaisingMetrics THEN "boom in " \o metrics[i] ELSE ""

\* the result score_text puts in the place of a metric that raised
FailureScore(metrics, i, text) ==
    [name |-> metrics[i],
     version |-> "1.0",
     score |-> Zero,
     details |-> [error |-> MetricError(metrics, i, text)]]

\* a score_text that leaves a metric that raised out of the list
score_textSkipFailed(text, metrics, weights) ==
    LET ok == SelectSeq([i \in 1..Len(metrics) |-> i],
                        LAMBDA i : MetricError(metrics, i, text) = "")
        component_scores ==
            [j \in 1..Len(ok) |-> MetricResult(metrics, ok[j], text)]
    IN [total_score |-> aggregate_scores(component_scores, weights),
        component_scores |-> component_scores]

\* score_text: every metric's result (the failure score when it raises),
\* and the aggregate
score_text(text, metrics, weights) ==
    LET component_scores ==
            [i \in 1..Len(metrics) |->
                IF MetricError(metrics, i, text) # ""
                THEN FailureScore(metrics, i, text)
                ELSE MetricResult(metrics, i, text)]
    IN [total_score |-> aggregate_scores(component_scores, weights),
        component_scores |-> component_scores]

\* prompt variants that leave the base prompt itself out
PromptVariantsNoBase(base_prompt) ==
    <<base_prompt \o "+brief", base_prompt \o "+careful",
      base_prompt \o "+strict">>

\* the three prompt variants initialize_language builds from the base prompt
PromptVariants(base_prompt) ==
    <<base_prompt, base_prompt \o "+careful", base_prompt \o "+strict">>

\* epsilon of the server's bandits
ServerEpsilon == <<1, 5>>

\* an initialize_language that does not test whether the pack file exists
initialize_languageAnyPack(g, lang_code) ==
    IF lang_code \in DOMAIN g.LANG_CONFIGS
    THEN [globals |-> g, error |-> "none"]
    ELSE LET lang_cfg == PackFile(lang_code)
             add(f, v) == [l \in DOMAIN f \cup {lang_code} |->
                              IF l = lang_code THEN v ELSE f[l]]
             configured == [g EXCEPT !.LANG_CONFIGS = add(@, lang_cfg)]
             measured == [configured EXCEPT !.METRICS = add(@, lang_cfg.metrics)]
         IN IF \E i \in 1..Len(lang_cfg.metrics) :
                   load_metricRaises(lang_cfg.metrics[i])
            THEN [globals |-> configured, error |-> "ValueError"]
            ELSE IF load_generatorRaises(lang_cfg)
            THEN [globals |-> measured, error |-> "ValueError"]
            ELSE [globals |->
                     [measured EXCEPT
                          !.GENERATORS = add(@, load_generator(lang_cfg)),
                          !.BANDITS = add(@,
                              NewBandit(PromptVariants(lang_cfg.prompt_template),
                                        ServerEpsilon, Half))],
                  error |-> "none"]

\* initialize_language on the globals g: the globals after the call and
\* what it raised
initialize_language(g, lang_code) ==
    IF lang_code \in DOMAIN g.LANG_CONFIGS
    THEN [globals |-> g, error |-> "none"]
    ELSE IF lang_code \notin PacksOnDisk
    THEN [globals |-> g, error |-> "ValueError"]
    ELSE LET lang_cfg == PackFile(lang_code)
             add(f, v) == [l \in DOMAIN f \cup {lang_code} |->
                              IF l = lang_code THEN v ELSE f[l]]
             configured == [g EXCEPT !.LANG_CONFIGS = add(@, lang_cfg)]
             measured == [configured EXCEPT !.METRICS = add(@, lang_cfg.metrics)]
         IN IF \E i \in 1..Len(lang_cfg.metrics) :
                   load_metricRaises(lang_cfg.metrics[i])
            THEN [globals |-> configured, error |-> "ValueError"]
            ELSE IF load_generatorRaises(lang_cfg)
            THEN [globals |-> measured, error |-> "ValueError"]
            ELSE [globals |->
                     [measured EXCEPT
                          !.GENERATORS = add(@, load_generator(lang_cfg)),
                          !.BANDITS = add(@,
                              NewBandit(PromptVariants(lang_cfg.prompt_template),
                                        ServerEpsilon, Half))],
                  error |-> "none"]

\* lists of at most k texts, and those of exactly k texts
RECURSIVE ListsOfLen(_)
ListsOfLen(n) ==
    IF n = 0 THEN {<<>>}
    ELSE {Append(l, t) : l \in ListsOfLen(n - 1), t \in Texts}

ListsUpTo(k) == UNION {ListsOfLen(n) : n \in 0..k}

NoDuplicates(l) == \A i, j \in 1..Len(l) : l[i] = l[j] => i = j

\* what generate(src, k) of each generator can return.  The bidirectional
\* generator asks the LLM k times, keeps what it has when a call fails (an
\* error string when it has nothing) and removes duplicates; the generator
\* of the language pack (OpenAI or mock) returns k strings.  For a negative
\* k the mock generator returns its four translations of a source it knows
\* cut by candidates[:k], and no candidate for any other source; the loops
\* over range(k) of the other generators return no candidate.
MockTranslations == <<Fluent, Flawed, Flawed, Flawed>>

GeneratorOutputs(generator, k) ==
    IF generator = "bidirectional"
    THEN {l \in ListsUpTo(k) : NoDuplicates(l) /\ (k > 0 => Len(l) >= 1)}
    ELSE IF k < 0
    THEN IF generator = "mock"
         THEN {<<>>, SubSeq(MockTranslations, 1, Len(MockTranslations) + k)}
         ELSE {<<>>}
    ELSE ListsOfLen(k)

\* the curated panel of the showcase generator, cut to k candidates
ShowcaseOutputs(k) ==
    {SubSeq(<<Fluent, Flawed>>, 1, IF k < 2 THEN k ELSE 2)}

\* the keyed comparison of list.sort(key=lambda x: x["R"], reverse=True):
\* whether b must come before a
ComesBeforeOrEqual(b, a) == RLe(a.R, b.R)

ComesBefore(b, a) == RLt(a.R, b.R)

\* scored_candidates.sort(key=lambda x: x["R"], reverse=True): a stable sort,
\* as an insertion of each item behind the items it does not come before
RECURSIVE SortByR(_)
SortByR(l) ==
    IF l = <<>> THEN <<>>
    ELSE LET front == SortByR(SubSeq(l, 1, Len(l) - 1))
             x == l[Len(l)]
             pos == Cardinality({i \in 1..Len(front) : ~ComesBefore(x, front[i])})
         IN SubSeq(front, 1, pos) \o <<x>> \o SubSeq(front, pos + 1, Len(front))

\* a showcase branch that takes its prompt from the bandit
ShowcasePromptPicked(b) == BanditPick(b, Zero, 1)

\* the prompt of the showcase branch: a fixed string, the bandit not asked
ShowcasePrompt(b) ==
    [bandit |-> b, prompt |-> "Showcase mode - curated demonstration"]

\* best = scored_candidates[0]
LastCandidate(scored) == scored[Len(scored)]

BestCandidate(scored) == scored[1]

\* results.append(result)
PrependResult(res, result) == <<result>> \o res

AppendResult(res, result) == Append(res, result)

\* the "Score each candidate" loop of translate
ScoreCandidates(candidates, metrics, weights) ==
    [i \in 1..Len(candidates) |->
        [id |-> i - 1,
         tgt |-> candidates[i],
         R |-> score_text(candidates[i], metrics, weights).total_score]]

(***************************************************************************)
(* A bandit driven directly through its public methods.                    *)
(***************************************************************************)
VARIABLES
    bandit,     \* the EpsilonGreedyBandit under test
    ret,        \* the last call made on it and what it returned or raised
    calls,      \* number of calls made so far
    stateFile,  \* the file save_state wrote, or NoFile
    savedFrom,  \* the bandit as it was when stateFile was written
    fresh       \* a second bandit, on which load_state is called

bvars == <<bandit, ret, calls, stateFile, savedFrom, fresh>>

NoFile == [prompts |-> <<>>]

\* prompt lists, exploration rates, initial values and rewards of the runs
PromptList == <<"A", "B", "C">>
UnknownPrompt == "Z"
Epsilons == {Zero, <<1, 5>>}
InitialValues == {Half, One}
Rewards == {Zero, One}
\* values random.random() returns, from [0, 1)
RandomDraws == {Zero, Half}

NoCall == [op |-> "none", prompt |-> "", reward |-> Zero, error |-> "none"]

Pick ==
    /\ calls < MaxCalls
    /\ \E u \in RandomDraws, i \in 1..Len(bandit.prompts) :
           LET r == BanditPick(bandit, u, i) IN
           /\ bandit' = r.bandit
           /\ ret' = [op |-> "pick", prompt |-> r.prompt, reward |-> Zero,
                      error |-> "none"]
    /\ calls' = calls + 1
    /\ UNCHANGED <<stateFile, savedFrom, fresh>>

Update ==
    /\ calls < MaxCalls
    /\ \E p \in Range(PromptList) \cup {UnknownPrompt}, w \in Rewards :
           LET r == BanditUpdate(bandit, p, w) IN
           /\ bandit' = r.bandit
           /\ ret' = [op |-> "update", prompt |-> p, reward |-> w,
                      error |-> r.error]
    /\ calls' = calls + 1
    /\ UNCHANGED <<stateFile, savedFrom, fresh>>

Save ==
    /\ calls < MaxCalls
    /\ stateFile' = SaveState(bandit)
    /\ savedFrom' = bandit
    /\ ret' = [NoCall EXCEPT !.op = "save_state"]
    /\ calls' = calls + 1
    /\ UNCHANGED <<bandit, fresh>>

Load ==
    /\ calls < MaxCalls
    /\ stateFile # NoFile
    /\ fresh' = LoadState(fresh, stateFile)
    /\ ret' = [NoCall EXCEPT !.op = "load_state"]
    /\ calls' = calls + 1
    /\ UNCHANGED <<bandit, stateFile, savedFrom>>

(***************************************************************************)
(* The server process: its globals, and the /translate handler.  The       *)
(* handler is a coroutine that never awaits, so it runs from the request   *)
(* to the response without another request in between; pc is its position. *)
(***************************************************************************)
VARIABLES
    LANG_CONFIGS,            \* language code -> loaded pack
    METRICS,                 \* language code -> metrics
    GENERATORS,              \* language code -> generator
    BANDITS,                 \* language code -> EpsilonGreedyBandit
    BIDIRECTIONAL_GENERATOR, \* TRUE once created (None before)
    SHOWCASE_GENERATOR,      \* TRUE once created (None before)
    pc,                      \* "boot", "idle", or the handler's position
    request,                 \* the request being handled
    seg,                     \* index of the segment being processed
    prompt,                  \* local prompt of the loop body
    candidates,              \* local candidates
    scored_candidates,       \* local scored_candidates
    results,                 \* local results
    response,                \* the last response sent
    segStart,                \* the target bandit when the segment began
    accepted                 \* number of segments received so far (a
                             \* request without segments counts as one)

\* a function of the pipeline called on its own, and the audit log
VARIABLES
    arg,        \* the arguments of the call
    out,        \* what the call returned
    files,      \* the audit directory: file name -> content
    loggers,    \* the AuditLogger objects constructed so far
    clock,      \* datetime.now(), counted in events
    tasks,      \* the translate coroutines of the event loop
    current     \* the coroutine the event loop is running, 0 for none

uvars == <<arg, out>>
lvars == <<files, loggers, clock>>
evars == <<tasks, current>>

gvars == <<LANG_CONFIGS, METRICS, GENERATORS, BANDITS,
           BIDIRECTIONAL_GENERATOR, SHOWCASE_GENERATOR>>
hvars == <<pc, request, seg, prompt, candidates, scored_candidates, results,
           response, segStart, accepted>>
svars == <<gvars, hvars>>
vars == <<bvars, svars, uvars, lvars, evars>>

NoArg == [fn |-> "none"]
NoOut == [fn |-> "none"]

Empty == [l \in {} |-> 0]

Globals ==
    [LANG_CONFIGS |-> LANG_CONFIGS, METRICS |-> METRICS,
     GENERATORS |-> GENERATORS, BANDITS |-> BANDITS]

SetGlobals(g) ==
    /\ LANG_CONFIGS' = g.LANG_CONFIGS
    /\ METRICS' = g.METRICS
    /\ GENERATORS' = g.GENERATORS
    /\ BANDITS' = g.BANDITS

NoRequest == [src |-> "", tgt |-> "", mode |-> "", segments |-> <<>>]
NoStats == [total_selections |-> 0, epsilon |-> Zero, prompts |-> <<>>]
\* a response: the endpoint that sent it, the HTTP status, what the handler
\* raised ("none", "HTTPException", or the exception that escaped it), and
\* the body (results of /translate, stats of /stats/{lang_code})
NoResponse ==
    [endpoint |-> "", status |-> 0, raised |-> "none", results |-> <<>>,
     lang_code |-> "", stats |-> NoStats]
NoBandit == NewBandit(<<>>, Zero, Zero)

\* startup_event: both packs are loaded, then the bidirectional and the
\* showcase generator are created; the bidirectional generator needs
\* OPENAI_API_KEY, and an exception ends the start-up where it is raised.
Startup ==
    /\ pc = "boot"
    /\ LET g1 == initialize_language(Globals, "haw")
           g2 == initialize_language(g1.globals, "en")
       IN /\ SetGlobals(IF g1.error # "none" THEN g1.globals ELSE g2.globals)
          /\ \E api_key \in BOOLEAN :
                LET ok == g1.error = "none" /\ g2.error = "none" /\ api_key
                IN /\ BIDIRECTIONAL_GENERATOR' = ok
                   /\ SHOWCASE_GENERATOR' = ok
    /\ pc' = "idle"
    /\ UNCHANGED <<request, seg, prompt, candidates, scored_candidates,
                   results, response, segStart, accepted>>

\* the response that ends translate with an error: an HTTPException the
\* handler raises carries its status, any other exception escapes the
\* handler and the framework answers 500
Fail(status, raised) ==
    /\ response' = [NoResponse EXCEPT !.endpoint = "/translate",
                                      !.status = status, !.raised = raised]
    /\ pc' = "idle"
    /\ seg' = 0
    /\ prompt' = ""
    /\ candidates' = <<>>
    /\ scored_candidates' = <<>>
    /\ results' = <<>>

\* the generator translate chooses
ChosenGenerator ==
    IF request.mode = "showcase" THEN "showcase"
    ELSE IF BIDIRECTIONAL_GENERATOR
            /\ <<request.src, request.tgt>> \in {<<"en", "haw">>, <<"haw", "en">>}
    THEN "bidirectional"
    ELSE GENERATORS[request.tgt]

\* translate, from the request to the head of the segment loop: the
\* languages are initialized (ValueError -> 400), then the metrics, the
\* generator and the bandit of the target language are looked up (KeyError
\* for a language without them)
Receive ==
    /\ pc = "idle"
    /\ accepted < MaxSegments
    /\ \E d \in Directions, n \in 0..(MaxSegments - accepted) :
       \E mode \in ModesSent(d) :
          LET src == d[1]
              tgt == d[2]
              g1 == initialize_language(Globals, src)
              g2 == initialize_language(g1.globals, tgt)
              failed == g1.error # "none" \/ g2.error # "none"
              after == IF g1.error # "none" THEN g1.globals ELSE g2.globals
              bidirectional ==
                  /\ BIDIRECTIONAL_GENERATOR
                  /\ d \in {<<"en", "haw">>, <<"haw", "en">>}
              missing ==
                  \/ tgt \notin DOMAIN after.METRICS
                  \/ /\ mode # "showcase"
                     /\ ~bidirectional
                     /\ tgt \notin DOMAIN after.GENERATORS
                  \/ tgt \notin DOMAIN after.BANDITS
          IN /\ request' = [src |-> src, tgt |-> tgt, mode |-> mode,
                            segments |-> [i \in 1..n |-> accepted + i]]
             /\ accepted' = accepted + (IF n = 0 THEN 1 ELSE n)
             /\ SetGlobals(after)
             /\ IF failed
                THEN Fail(400, "HTTPException")
                ELSE IF missing
                THEN Fail(500, "KeyError")
                ELSE /\ pc' = "loop"
                     /\ seg' = 1
                     /\ results' = <<>>
                     /\ response' = NoResponse
                     /\ UNCHANGED <<prompt, candidates, scored_candidates>>
    /\ UNCHANGED <<BIDIRECTIONAL_GENERATOR, SHOWCASE_GENERATOR, segStart>>

lang_cfg == LANG_CONFIGS[request.tgt]
InLoop == pc = "loop" /\ seg <= Len(request.segments)

\* showcase branch of the loop body: the process log is read from
\* SHOWCASE_GENERATOR (None raises), then the candidates are generated
SegShowcase ==
    /\ InLoop
    /\ request.mode = "showcase"
    /\ segStart' = BANDITS[request.tgt]
    /\ IF ~SHOWCASE_GENERATOR
       THEN Fail(500, "AttributeError") /\ UNCHANGED BANDITS
       ELSE LET p == ShowcasePrompt(BANDITS[request.tgt])
            IN /\ prompt' = p.prompt
               /\ BANDITS' = [BANDITS EXCEPT ![request.tgt] = p.bandit]
               /\ \E c \in ShowcaseOutputs(lang_cfg.k_samples) :
                      candidates' = c
               /\ pc' = "generated"
               /\ UNCHANGED <<seg, scored_candidates, results, response>>
    /\ UNCHANGED <<LANG_CONFIGS, METRICS, GENERATORS, BIDIRECTIONAL_GENERATOR,
                   SHOWCASE_GENERATOR, request, accepted>>

\* rlvr branch: prompt = bandit.pick()
SegPick ==
    /\ InLoop
    /\ request.mode = "rlvr"
    /\ segStart' = BANDITS[request.tgt]
    /\ \E u \in RandomDraws, i \in 1..Len(BANDITS[request.tgt].prompts) :
          LET r == BanditPick(BANDITS[request.tgt], u, i)
          IN /\ BANDITS' = [BANDITS EXCEPT ![request.tgt] = r.bandit]
             /\ prompt' = r.prompt
    /\ pc' = "picked"
    /\ UNCHANGED <<LANG_CONFIGS, METRICS, GENERATORS, BIDIRECTIONAL_GENERATOR,
                   SHOWCASE_GENERATOR, request, seg, candidates,
                   scored_candidates, results, response, accepted>>

\* rlvr branch: candidates = generator.generate(segment.src, k=k, ...)
SegGenerate ==
    /\ pc = "picked"
    /\ \E c \in GeneratorOutputs(ChosenGenerator, lang_cfg.k_samples) :
          candidates' = c
    /\ pc' = "generated"
    /\ UNCHANGED <<gvars, request, seg, prompt, scored_candidates, results,
                   response, segStart, accepted>>

\* standard branch: the base prompt, and one translation
SegStandard ==
    /\ InLoop
    /\ request.mode = "standard"
    /\ segStart' = BANDITS[request.tgt]
    /\ prompt' = lang_cfg.prompt_template
    /\ \E c \in GeneratorOutputs(ChosenGenerator, 1) : candidates' = c
    /\ pc' = "generated"
    /\ UNCHANGED <<gvars, request, seg, scored_candidates, results, response,
                   accepted>>

\* a handler that takes the pick of the segment back when the segment fails
ScoreAndRankRollback ==
    /\ pc = "generated"
    /\ LET sorted == SortByR(ScoreCandidates(candidates, METRICS[request.tgt],
                                             lang_cfg.weights))
       IN IF sorted = <<>>
          THEN /\ Fail(500, "IndexError")
               /\ BANDITS' = [BANDITS EXCEPT ![request.tgt] = segStart]
          ELSE /\ scored_candidates' = sorted
               /\ pc' = "ranked"
               /\ UNCHANGED <<BANDITS, seg, prompt, candidates, results,
                              response>>
    /\ UNCHANGED <<LANG_CONFIGS, METRICS, GENERATORS, BIDIRECTIONAL_GENERATOR,
                   SHOWCASE_GENERATOR, request, segStart, accepted>>

\* the candidates are scored and sorted, best = scored_candidates[0]
\* (IndexError on an empty list)
ScoreAndRank ==
    /\ pc = "generated"
    /\ LET sorted == SortByR(ScoreCandidates(candidates, METRICS[request.tgt],
                                             lang_cfg.weights))
       IN IF sorted = <<>>
          THEN Fail(500, "IndexError")
          ELSE /\ scored_candidates' = sorted
               /\ pc' = "ranked"
               /\ UNCHANGED <<seg, prompt, candidates, results, response>>
    /\ UNCHANGED <<gvars, request, segStart, accepted>>

\* the TranslationResult of the segment
TranslationResult(segment, best) ==
    [id |-> segment,
     best |-> best.tgt,
     candidates |-> scored_candidates,
     prompt |-> prompt]

\* the bandit is updated (except in showcase mode) and the result appended
UpdateAndAppend ==
    /\ pc = "ranked"
    /\ LET best == BestCandidate(scored_candidates)
           u == IF request.mode # "showcase"
                THEN BanditUpdate(BANDITS[request.tgt], prompt, best.R)
                ELSE [bandit |-> BANDITS[request.tgt], error |-> "none"]
       IN /\ BANDITS' = [BANDITS EXCEPT ![request.tgt] = u.bandit]
          /\ IF u.error # "none"
             THEN Fail(500, "ValueError")
             ELSE /\ results' = AppendResult(results,
                          TranslationResult(request.segments[seg], best))
                  /\ seg' = seg + 1
                  /\ pc' = "loop"
                  /\ UNCHANGED <<prompt, candidates, scored_candidates,
                                 response>>
    /\ UNCHANGED <<LANG_CONFIGS, METRICS, GENERATORS, BIDIRECTIONAL_GENERATOR,
                   SHOWCASE_GENERATOR, request, segStart, accepted>>

\* return TranslateResponse(results=results)
Respond ==
    /\ pc = "loop"
    /\ seg > Len(request.segments)
    /\ response' = [NoResponse EXCEPT !.endpoint = "/translate",
                                      !.status = 200, !.results = results]
    /\ pc' = "idle"
    /\ seg' = 0
    /\ prompt' = ""
    /\ candidates' = <<>>
    /\ scored_candidates' = <<>>
    /\ results' = <<>>
    /\ UNCHANGED <<gvars, request, segStart, accepted>>

\* stats["prompts"].sort(key=lambda p: p["value"], reverse=True)
RECURSIVE SortByValue(_)
SortByValue(l) ==
    IF l = <<>> THEN <<>>
    ELSE LET front == SortByValue(SubSeq(l, 1, Len(l) - 1))
             x == l[Len(l)]
             pos == Cardinality({i \in 1..Len(front) :
                                   ~RLt(front[i].value, x.value)})
         IN SubSeq(front, 1, pos) \o <<x>> \o SubSeq(front, pos + 1, Len(front))

\* EpsilonGreedyBandit.get_stats
get_stats(b) ==
    [total_selections |-> b.total_selections,
     epsilon |-> b.epsilon,
     prompts |-> SortByValue(
         [i \in 1..Len(b.prompts) |->
             LET p == b.prompts[i] IN
             [prompt |-> p,
              value |-> b.values[p],
              count |-> b.counts[p],
              selection_rate |->
                  RDivInt(<<b.counts[p], 1>>,
                          IF b.total_selections > 1 THEN b.total_selections
                          ELSE 1)]])]

\* a handler that looks the bandit up without the membership test
get_language_statsNoCheck(bandits, lang_code) ==
    IF lang_code \notin DOMAIN bandits
    THEN [NoResponse EXCEPT !.endpoint = "/stats", !.lang_code = lang_code,
                            !.status = 500, !.raised = "KeyError"]
    ELSE [NoResponse EXCEPT !.endpoint = "/stats", !.lang_code = lang_code,
                            !.status = 200,
                            !.stats = get_stats(bandits[lang_code])]

\* get_language_stats: the response to GET /stats/{lang_code}
get_language_stats(bandits, lang_code) ==
    IF lang_code \notin DOMAIN bandits
    THEN [NoResponse EXCEPT !.endpoint = "/stats", !.lang_code = lang_code,
                            !.status = 404, !.raised = "HTTPException"]
    ELSE [NoResponse EXCEPT !.endpoint = "/stats", !.lang_code = lang_code,
                            !.status = 200,
                            !.stats = get_stats(bandits[lang_code])]

\* GET /stats/{lang_code}, served between two /translate requests
GetLanguageStats ==
    /\ pc = "idle"
    /\ \E lang_code \in StatsCodes :
          response' = get_language_stats(BANDITS, lang_code)
    /\ UNCHANGED <<gvars, pc, request, seg, prompt, candidates,
                   scored_candidates, results, segStart, accepted>>

\* the server before start-up; the stand-alone bandit is not used
Init ==
    /\ LANG_CONFIGS = Empty
    /\ METRICS = Empty
    /\ GENERATORS = Empty
    /\ BANDITS = Empty
    /\ BIDIRECTIONAL_GENERATOR = FALSE
    /\ SHOWCASE_GENERATOR = FALSE
    /\ pc = "boot"
    /\ request = NoRequest
    /\ seg = 0
    /\ prompt = ""
    /\ candidates = <<>>
    /\ scored_candidates = <<>>
    /\ results = <<>>
    /\ response = NoResponse
    /\ segStart = NoBandit
    /\ accepted = 0
    /\ bandit = NoBandit
    /\ ret = NoCall
    /\ calls = 0
    /\ stateFile = NoFile
    /\ savedFrom = NoBandit
    /\ fresh = NoBandit
    /\ arg = NoArg
    /\ out = NoOut
    /\ files = Empty
    /\ loggers = <<>>
    /\ clock = 0
    /\ tasks = <<>>
    /\ current = 0

Next ==
    \/ Startup /\ UNCHANGED <<bvars, uvars, lvars, evars>>
    \/ Receive /\ UNCHANGED <<bvars, uvars, lvars, evars>>
    \/ SegShowcase /\ UNCHANGED <<bvars, uvars, lvars, evars>>
    \/ SegPick /\ UNCHANGED <<bvars, uvars, lvars, evars>>
    \/ SegGenerate /\ UNCHANGED <<bvars, uvars, lvars, evars>>
    \/ SegStandard /\ UNCHANGED <<bvars, uvars, lvars, evars>>
    \/ ScoreAndRank /\ UNCHANGED <<bvars, uvars, lvars, evars>>
    \/ UpdateAndAppend /\ UNCHANGED <<bvars, uvars, lvars, evars>>
    \/ Respond /\ UNCHANGED <<bvars, uvars, lvars, evars>>
    \/ GetLanguageStats /\ UNCHANGED <<bvars, uvars, lvars, evars>>

Spec == Init /\ [][Next]_vars

\* the stand-alone bandit: the server is not started
InitBandit ==
    /\ \E e \in Epsilons, v \in InitialValues :
           bandit = NewBandit(PromptList, e, v)
    /\ ret = NoCall
    /\ calls = 0
    /\ stateFile = NoFile
    /\ savedFrom = NoBandit
    /\ fresh = NewBandit(<<"X">>, Half, Half)
    /\ LANG_CONFIGS = Empty
    /\ METRICS = Empty
    /\ GENERATORS = Empty
    /\ BANDITS = Empty
    /\ BIDIRECTIONAL_GENERATOR = FALSE
    /\ SHOWCASE_GENERATOR = FALSE
    /\ pc = "boot"
    /\ request = NoRequest
    /\ seg = 0
    /\ prompt = ""
    /\ candidates = <<>>
    /\ scored_candidates = <<>>
    /\ results = <<>>
    /\ response = NoResponse
    /\ segStart = NoBandit
    /\ accepted = 0
    /\ arg = NoArg
    /\ out = NoOut
    /\ files = Empty
    /\ loggers = <<>>
    /\ clock = 0
    /\ tasks = <<>>
    /\ current = 0

BanditNext ==
    \/ Pick /\ UNCHANGED <<svars, uvars, lvars, evars>>
    \/ Update /\ UNCHANGED <<svars, uvars, lvars, evars>>
    \/ Save /\ UNCHANGED <<svars, uvars, lvars, evars>>
    \/ Load /\ UNCHANGED <<svars, uvars, lvars, evars>>

SpecBandit == InitBandit /\ [][BanditNext]_vars

(***************************************************************************)
(* score_text and aggregate_scores called on their own.                    *)
(***************************************************************************)
\* the metrics handed to score_text: two that return and two that raise
StubMetrics == {"diacritics", "spelling"} \cup RaisingMetrics
WeightValues == {Zero, Half, One}

RECURSIVE SeqsOfLen(_, _)
SeqsOfLen(S, n) ==
    IF n = 0 THEN {<<>>}
    ELSE {Append(l, x) : l \in SeqsOfLen(S, n - 1), x \in S}

SeqsUpTo(S, n) == UNION {SeqsOfLen(S, m) : m \in 0..n}

\* the weight tables over some of the names
WeightTables(names, values) == UNION {[D -> values] : D \in SUBSET names}

\* the component scores handed to aggregate_scores
ScoreEntries ==
    {[name |-> n, score |-> v] :
        n \in {"diacritics", "spelling"}, v \in WeightValues}

ScoringCalls ==
    {[fn |-> "score_text", text |-> t, metrics |-> m, weights |-> w] :
        t \in Texts, m \in SeqsUpTo(StubMetrics, MaxMetrics),
        w \in WeightTables(StubMetrics \ {"spelling"}, {Zero, One})}
    \cup
    {[fn |-> "aggregate_scores", component_scores |-> c, weights |-> w] :
        c \in SeqsUpTo(ScoreEntries, MaxScores),
        w \in WeightTables({"diacritics", "spelling", "broken_a"},
                           WeightValues)}

CallScoreText ==
    /\ arg.fn = "score_text"
    /\ LET r == score_text(arg.text, arg.metrics, arg.weights)
       IN out' = [fn |-> "score_text", total_score |-> r.total_score,
                  component_scores |-> r.component_scores]
    /\ UNCHANGED arg

CallAggregateScores ==
    /\ arg.fn = "aggregate_scores"
    /\ out' = [fn |-> "aggregate_scores",
               value |-> aggregate_scores(arg.component_scores, arg.weights)]
    /\ UNCHANGED arg

InitScoring ==
    /\ arg \in ScoringCalls
    /\ out = NoOut
    /\ files = Empty
    /\ loggers = <<>>
    /\ clock = 0
    /\ tasks = <<>>
    /\ current = 0
    /\ bandit = NoBandit
    /\ ret = NoCall
    /\ calls = 0
    /\ stateFile = NoFile
    /\ savedFrom = NoBandit
    /\ fresh = NoBandit
    /\ LANG_CONFIGS = Empty
    /\ METRICS = Empty
    /\ GENERATORS = Empty
    /\ BANDITS = Empty
    /\ BIDIRECTIONAL_GENERATOR = FALSE
    /\ SHOWCASE_GENERATOR = FALSE
    /\ pc = "boot"
    /\ request = NoRequest
    /\ seg = 0
    /\ prompt = ""
    /\ candidates = <<>>
    /\ scored_candidates = <<>>
    /\ results = <<>>
    /\ response = NoResponse
    /\ segStart = NoBandit
    /\ accepted = 0

ScoringNext ==
    \/ CallScoreText /\ UNCHANGED <<bvars, svars, lvars, evars>>
    \/ CallAggregateScores /\ UNCHANGED <<bvars, svars, lvars, evars>>

SpecScoring == InitScoring /\ [][ScoringNext]_vars

(***************************************************************************)
(* The LLM-backed generators called on their own:                          *)
(* rlvr/generator/llm_openai.py and rlvr/generator/bidirectional.py        *)
(***************************************************************************)
\* what one call of client.chat.completions.create does: it returns a
\* completion, or it raises (Raises stands for the call that raises,
\* UpstreamError is the message of its exception)
UpstreamError == "upstream down"
Raises == "<raises>"
Completions == {Fluent, Flawed, Fluent \o " "}
UpstreamOutcomes == Completions \cup {Raises}

\* response.choices[0].message.content.strip()
Strip(content) == IF content = Fluent \o " " THEN Fluent ELSE content

\* OpenAIGenerator.generate(src, k): one upstream call per candidate, each
\* in its own try; upstream[i] is what the i-th call does
OpenAIGenerate(k, upstream) ==
    [raised |-> "none",
     candidates |->
        [i \in 1..k |->
            IF upstream[i] = Raises
            THEN "[Translation error: " \o UpstreamError \o "]"
            ELSE Strip(upstream[i])],
     upstream_calls |-> k]

\* "Remove duplicates while preserving order"
RECURSIVE Unique(_)
Unique(l) ==
    IF l = <<>> THEN <<>>
    ELSE LET front == Unique(SubSeq(l, 1, Len(l) - 1))
             c == l[Len(l)]
         IN IF c \in Range(front) THEN front ELSE Append(front, c)

\* the index of the first upstream call that raises, k + 1 when none does
FirstRaise(k, upstream) ==
    IF \E i \in 1..k : upstream[i] = Raises
    THEN CHOOSE i \in 1..k :
            upstream[i] = Raises /\ \A j \in 1..(i - 1) : upstream[j] # Raises
    ELSE k + 1

\* BiDirectionalGenerator.generate(src, k, direction="en_to_haw"): one try
\* around the whole loop of upstream calls
BiDirectionalGenerate(k, upstream) ==
    LET f == FirstRaise(k, upstream)
        got == [i \in 1..(f - 1) |-> Strip(upstream[i])]
        kept == IF f <= k /\ got = <<>>
                THEN <<"Error: " \o UpstreamError>>
                ELSE got
        unique_candidates == Unique(kept)
    IN [raised |-> "none",
        candidates |-> SubSeq(unique_candidates, 1,
                              IF Len(unique_candidates) < k
                              THEN Len(unique_candidates) ELSE k),
        upstream_calls |-> IF f <= k THEN f ELSE k]

GeneratorCalls ==
    {[fn |-> "generate", k |-> k, upstream |-> u] :
        k \in 0..MaxK, u \in SeqsOfLen(UpstreamOutcomes, MaxK)}

CallOpenAIGenerate ==
    /\ arg.fn = "generate"
    /\ LET r == OpenAIGenerate(arg.k, arg.upstream)
       IN out' = [fn |-> "OpenAIGenerator.generate", raised |-> r.raised,
                  candidates |-> r.candidates,
                  upstream_calls |-> r.upstream_calls]
    /\ UNCHANGED arg

CallBiDirectionalGenerate ==
    /\ arg.fn = "generate"
    /\ LET r == BiDirectionalGenerate(arg.k, arg.upstream)
       IN out' = [fn |-> "BiDirectionalGenerator.generate",
                  raised |-> r.raised, candidates |-> r.candidates,
                  upstream_calls |-> r.upstream_calls]
    /\ UNCHANGED arg

InitGenerator ==
    /\ arg \in GeneratorCalls
    /\ out = NoOut
    /\ files = Empty
    /\ loggers = <<>>
    /\ clock = 0
    /\ tasks = <<>>
    /\ current = 0
    /\ bandit = NoBandit
    /\ ret = NoCall
    /\ calls = 0
    /\ stateFile = NoFile
    /\ savedFrom = NoBandit
    /\ fresh = NoBandit
    /\ LANG_CONFIGS = Empty
    /\ METRICS = Empty
    /\ GENERATORS = Empty
    /\ BANDITS = Empty
    /\ BIDIRECTIONAL_GENERATOR = FALSE
    /\ SHOWCASE_GENERATOR = FALSE
    /\ pc = "boot"
    /\ request = NoRequest
    /\ seg = 0
    /\ prompt = ""
    /\ candidates = <<>>
    /\ scored_candidates = <<>>
    /\ results = <<>>
    /\ response = NoResponse
    /\ segStart = NoBandit
    /\ accepted = 0

GeneratorNext ==
    \/ CallOpenAIGenerate /\ UNCHANGED <<bvars, svars, lvars, evars>>
    \/ CallBiDirectionalGenerate /\ UNCHANGED <<bvars, svars, lvars, evars>>

SpecGenerator == InitGenerator /\ [][GeneratorNext]_vars

(***************************************************************************)
(* The audit logger: rlvr/audit/logger.py.  A text is a sequence of        *)
(* characters, a file the sequence of the characters written to it.        *)
(***************************************************************************)
IsPrefix(s, t) == Len(s) <= Len(t) /\ SubSeq(t, 1, Len(s)) = s

NL == "\n"
QUOTE == "\""
BACKSLASH == "\\"

\* how json.dumps writes the characters of a string
RECURSIVE Escaped(_)
Escaped(str) ==
    IF str = <<>> THEN <<>>
    ELSE LET c == Head(str)
         IN (IF c = NL THEN <<BACKSLASH, "n">>
             ELSE IF c = QUOTE THEN <<BACKSLASH, QUOTE>>
             ELSE IF c = BACKSLASH THEN <<BACKSLASH, BACKSLASH>>
             ELSE <<c>>) \o Escaped(Tail(str))

\* a serialisation that copies the characters of a string as they are
json_dumpsRaw(event) ==
    <<"{", "type:", event.type, ",", "timestamp:", event.timestamp, ",",
      "payload:", QUOTE>> \o event.payload \o <<QUOTE, "}">>

\* json.dumps(event, ensure_ascii=False): one JSON object, its strings
\* escaped; payload stands for the fields an event has besides its type
\* and timestamp
json_dumps(event) ==
    <<"{", "type:", event.type, ",", "timestamp:", event.timestamp, ",",
      "payload:", QUOTE>> \o Escaped(event.payload) \o <<QUOTE, "}">>

\* open(self.log_file, 'w'): the file is emptied before the write
_write_eventTruncate(fs, log_file, event, now) ==
    LET stamped == IF "timestamp" \in DOMAIN event THEN event
                   ELSE [type |-> event.type, payload |-> event.payload,
                         timestamp |-> now]
    IN [f \in DOMAIN fs \cup {log_file} |->
           IF f = log_file THEN json_dumps(stamped) \o <<NL>> ELSE fs[f]]

\* _write_event: the event gets a timestamp unless it has one, and its
\* JSON text and a newline are appended to the file (created when missing)
_write_event(fs, log_file, event, now) ==
    LET stamped == IF "timestamp" \in DOMAIN event THEN event
                   ELSE [type |-> event.type, payload |-> event.payload,
                         timestamp |-> now]
        old == IF log_file \in DOMAIN fs THEN fs[log_file] ELSE <<>>
    IN [f \in DOMAIN fs \cup {log_file} |->
           IF f = log_file THEN old \o json_dumps(stamped) \o <<NL>>
           ELSE fs[f]]

\* datetime.now().isoformat()
Now == "T" \o ToString(clock)

\* run ids given to the constructor (NoRunId: none given), and the texts
\* given to the logging calls
NoRunId == ""
RunIds == {"r1", NoRunId}
LogTexts == {<<"a">>, <<"a", NL, QUOTE, "b", BACKSLASH>>}

\* _generate_run_id: a fresh id
_generate_run_id == "run_" \o ToString(clock)

\* AuditLogger(run_id): the log file is named, and run_start written
NewLogger ==
    /\ clock < MaxEvents
    /\ \E given \in RunIds :
          LET run_id == IF given # NoRunId THEN given ELSE _generate_run_id
              log_file == run_id \o ".jsonl"
          IN /\ loggers' = Append(loggers,
                                  [run_id |-> run_id, log_file |-> log_file])
             /\ files' = _write_event(files, log_file,
                              [type |-> "run_start", payload |-> <<run_id>>,
                               timestamp |-> Now], Now)
    /\ clock' = clock + 1

\* a logging call on logger i that writes an event of the given type
LogEvent(i, type, payload) ==
    /\ clock < MaxEvents
    /\ files' = _write_event(files, loggers[i].log_file,
                             [type |-> type, payload |-> payload], Now)
    /\ clock' = clock + 1
    /\ UNCHANGED loggers

log_config ==
    \E i \in 1..Len(loggers) : LogEvent(i, "config", <<"config">>)

\* log_translation(src, candidates, scores, best_idx, prompt): best_text is
\* candidates[best_idx], or None when there is no candidate
log_translation ==
    \E i \in 1..Len(loggers), src \in LogTexts, cands \in {<<>>, <<<<"c">>>>} :
        LogEvent(i, "translation",
                 src \o (IF cands # <<>> THEN cands[1] ELSE <<"null">>))

log_metric_evaluation ==
    \E i \in 1..Len(loggers) : LogEvent(i, "metric_eval", <<"diacritics">>)

log_bandit_update ==
    \E i \in 1..Len(loggers) : LogEvent(i, "bandit_update", <<"prompt">>)

log_error ==
    \E i \in 1..Len(loggers), message \in LogTexts :
        LogEvent(i, "error", <<"ValueError">> \o message)

\* finalize(summary): run_end; the logger can still be used afterwards
finalize ==
    \E i \in 1..Len(loggers) :
        LogEvent(i, "run_end", <<loggers[i].run_id, Now>>)

InitLogger ==
    /\ files = Empty
    /\ loggers = <<>>
    /\ clock = 0
    /\ tasks = <<>>
    /\ current = 0
    /\ arg = NoArg
    /\ out = NoOut
    /\ bandit = NoBandit
    /\ ret = NoCall
    /\ calls = 0
    /\ stateFile = NoFile
    /\ savedFrom = NoBandit
    /\ fresh = NoBandit
    /\ LANG_CONFIGS = Empty
    /\ METRICS = Empty
    /\ GENERATORS = Empty
    /\ BANDITS = Empty
    /\ BIDIRECTIONAL_GENERATOR = FALSE
    /\ SHOWCASE_GENERATOR = FALSE
    /\ pc = "boot"
    /\ request = NoRequest
    /\ seg = 0
    /\ prompt = ""
    /\ candidates = <<>>
    /\ scored_candidates = <<>>
    /\ results = <<>>
    /\ response = NoResponse
    /\ segStart = NoBandit
    /\ accepted = 0

LoggerNext ==
    \/ NewLogger /\ UNCHANGED <<bvars, svars, uvars, evars>>
    \/ log_config /\ UNCHANGED <<bvars, svars, uvars, evars>>
    \/ log_translation /\ UNCHANGED <<bvars, svars, uvars, evars>>
    \/ log_metric_evaluation /\ UNCHANGED <<bvars, svars, uvars, evars>>
    \/ log_bandit_update /\ UNCHANGED <<bvars, svars, uvars, evars>>
    \/ log_error /\ UNCHANGED <<bvars, svars, uvars, evars>>
    \/ finalize /\ UNCHANGED <<bvars, svars, uvars, evars>>

SpecLogger == InitLogger /\ [][LoggerNext]_vars

\* The logger on a disk that can fail.  A logging call or finalize whose
\* open(self.log_file, 'a') raises OSError: the timestamp has been read,
\* nothing is written, and the exception leaves _write_event and the
\* logging call, neither of which has a handler; out is what the caller of
\* the logging call sees.
LoggingCalls ==
    {"log_config", "log_translation", "log_metric_evaluation",
     "log_bandit_update", "log_error", "finalize"}

WriteFails ==
    /\ clock < MaxEvents
    /\ Len(loggers) >= 1
    /\ \E call \in LoggingCalls : out' = [fn |-> call, raised |-> "OSError"]
    /\ clock' = clock + 1
    /\ UNCHANGED <<files, loggers>>

LoggerIONext ==
    \/ LoggerNext
    \/ WriteFails /\ UNCHANGED <<bvars, svars, arg, evars>>

SpecLoggerIO == InitLogger /\ [][LoggerIONext]_vars

(***************************************************************************)
(* The metrics: rlvr/metrics/*.py.  For the metrics that work on words, a  *)
(* text is given as the sequence of its words (text.split()), a word being *)
(* a sequence of characters; "'" stands for the okina and "a-", "o-" for   *)
(* a and o with kahako.  The punctuation metric works on the sequence of   *)
(* the characters of the text.                                             *)
(***************************************************************************)
Okina == "'"

\* str.lower(), on the characters that occur in the texts
Lower(c) ==
    CASE c = "A" -> "a"
      [] c = "D" -> "d"
      [] c = "H" -> "h"
      [] c = "K" -> "k"
      [] c = "T" -> "t"
      [] c = "U" -> "u"
      [] c = "A-" -> "a-"
      [] OTHER -> c

lower(word) == [i \in 1..Len(word) |-> Lower(word[i])]

Without(word, chars) == SelectSeq(word, LAMBDA c : c \notin chars)

startswith(word, prefix) == IsPrefix(prefix, word)

endswith(word, suffix) ==
    /\ Len(suffix) <= Len(word)
    /\ SubSeq(word, Len(word) - Len(suffix) + 1, Len(word)) = suffix

\* re.sub(r'[.,!?;:"]', '', word).strip()
_normalize_word(word) == Without(word, {".", ",", "!", "?", ";", ":", QUOTE})

\* the okina is removed and a vowel with kahako replaced by the plain vowel
_strip_diacritics(word) ==
    LET kept == Without(word, {Okina})
    IN [i \in 1..Len(kept) |->
           CASE kept[i] = "a-" -> "a"
             [] kept[i] = "o-" -> "o"
             [] kept[i] = "A-" -> "A"
             [] OTHER -> kept[i]]

\* errors / max(checks, 1) taken from 1 and the result left as it is
Unclamped(errors, checks) ==
    RSub(One, Norm(<<errors, IF checks > 1 THEN checks ELSE 1>>))

\* max(0.0, 1.0 - errors / max(checks, 1))
Clamped(errors, checks) ==
    IF RLt(Unclamped(errors, checks), Zero) THEN Zero
    ELSE Unclamped(errors, checks)

\* lang/haw/lex_diacritics.txt: the words that need their diacritics; two
\* of them differ by a kahako only
lex_diacritics ==
    { <<Okina, "a-", "i", "n", "a">>, <<Okina, "a", "i", "n", "a">>,
      <<"h", "o-", Okina, "i", "k", "e">> }

\* the orders in which a set can be iterated
Orders(S) ==
    {o \in [1..Cardinality(S) -> S] : \A x \in S : \E i \in DOMAIN o : o[i] = x}

\* the first required form, in iteration order, with the base form of the
\* word (0: none)
RECURSIVE FirstRequired(_, _, _)
FirstRequired(base_form, required_forms, i) ==
    IF i > Len(required_forms) THEN 0
    ELSE IF _strip_diacritics(required_forms[i]) = base_form THEN i
    ELSE FirstRequired(base_form, required_forms, i + 1)

\* Diacritics.score; required_forms is the lexicon in the order in which
\* the set is iterated
DiacriticsScore(words, required_forms) ==
    LET normalized(i) == lower(_normalize_word(words[i]))
        required(i) == FirstRequired(_strip_diacritics(normalized(i)),
                                     required_forms, 1)
        words_to_check == {i \in 1..Len(words) : required(i) # 0}
        correct == {i \in words_to_check :
                       normalized(i) = required_forms[required(i)]}
    IN [name |-> "diacritics",
        score |-> IF words_to_check = {} THEN One
                  ELSE Norm(<<Cardinality(correct),
                              Cardinality(words_to_check)>>),
        checked |-> Cardinality(words_to_check),
        errors |-> Cardinality(words_to_check) - Cardinality(correct)]

\* lang/haw/regex_tam.json: the marker of negation and the patterns, each
\* a sequence of particles and VERB placeholders
VERB == <<"VERB">>
Aole == <<Okina, "a", Okina, "o", "l", "e">>
regex_tam ==
    [neg |-> [marker |-> Aole,
              valid |-> {<<Aole, <<"i">>, VERB>>, <<Aole, <<"e">>, VERB>>},
              invalid |-> {<<Aole, <<"u", "a">>>>}],
     aff |-> [valid |-> {<<<<"u", "a">>, VERB>>,
                         <<<<"k", "e">>, VERB, <<"n", "e", "i">>>>}]]

\* verb_pattern: a letter, then letters; the okina is not a letter
MatchesVerb(word) == word # <<>> /\ word[1] # Okina

\* re.search(pattern, text, re.IGNORECASE): the words of the pattern are
\* found one after the other somewhere in the text
Search(pattern, words) ==
    \E at \in 0..(Len(words) - Len(pattern)) :
        \A j \in 1..Len(pattern) :
            IF pattern[j] = VERB THEN MatchesVerb(words[at + j])
            ELSE lower(words[at + j]) = pattern[j]

_check_negative_context(words) ==
    LET valid_patterns == {p \in regex_tam.neg.valid : Search(p, words)}
        invalid_patterns == {p \in regex_tam.neg.invalid : Search(p, words)}
    IN IF ~Search(<<regex_tam.neg.marker>>, words)
       THEN [has_negative |-> FALSE, valid |-> TRUE,
             valid_patterns |-> {}, invalid_patterns |-> {}]
       ELSE [has_negative |-> TRUE,
             valid |-> valid_patterns # {} /\ invalid_patterns = {},
             valid_patterns |-> valid_patterns,
             invalid_patterns |-> invalid_patterns]

_check_affirmative_context(words) ==
    [has_negative |-> FALSE, valid |-> TRUE,
     valid_patterns |-> {p \in regex_tam.aff.valid : Search(p, words)},
     invalid_patterns |-> {}]

\* a score that takes a forbidden combination for an ambiguous sentence
TAMParticlesScoreLenient(words) ==
    LET neg_check == _check_negative_context(words)
        aff_check == _check_affirmative_context(words)
    IN IF neg_check.has_negative
       THEN [name |-> "tam_particles",
             score |-> IF neg_check.valid THEN One ELSE Half,
             details |-> neg_check]
       ELSE [name |-> "tam_particles",
             score |-> IF aff_check.valid THEN One ELSE <<7, 10>>,
             details |-> aff_check]

\* TAMParticles.score
TAMParticlesScore(words) ==
    LET neg_check == _check_negative_context(words)
        aff_check == _check_affirmative_context(words)
    IN IF neg_check.has_negative
       THEN [name |-> "tam_particles",
             score |-> IF neg_check.valid THEN One
                       ELSE IF neg_check.invalid_patterns # {} THEN Zero
                       ELSE Half,
             details |-> neg_check]
       ELSE [name |-> "tam_particles",
             score |-> IF aff_check.valid THEN One ELSE <<7, 10>>,
             details |-> aff_check]

\* lang/haw/ke_exceptions.txt: words that take ke against the KEAO rule
ke_exceptions == { <<"p", "a-">> }

_should_use_ke(word) ==
    LET normalized == lower(_normalize_word(word))
    IN \/ normalized \in ke_exceptions
       \/ /\ normalized # <<>>
          /\ normalized[1] \in {"k", "e", "a", "o", Okina}

\* _find_article_pairs: the positions of a ke or ka that has a next word
_find_article_pairs(words) ==
    {i \in 1..(Len(words) - 1) : lower(words[i]) \in {<<"k", "e">>, <<"k", "a">>}}

\* ArticlesKeKa.score
ArticlesKeKaScore(words) ==
    LET pairs == _find_article_pairs(words)
        correct == {i \in pairs :
                       \/ _should_use_ke(words[i + 1])
                            /\ lower(words[i]) = <<"k", "e">>
                       \/ ~_should_use_ke(words[i + 1])
                            /\ lower(words[i]) = <<"k", "a">>}
    IN [name |-> "articles_ke_ka",
        score |-> IF pairs = {} THEN One
                  ELSE Norm(<<Cardinality(correct), Cardinality(pairs)>>),
        checked |-> Cardinality(pairs),
        errors |-> Cardinality(pairs) - Cardinality(correct)]

\* lang/en/article_exceptions.txt, its two sections
exceptions_use_a == { <<"o", "n", "e">> }
exceptions_use_an == { <<"h", "o", "u", "r">> }

\* ArticlesAAn._should_use_an
_should_use_an(word) ==
    IF word = <<>> THEN FALSE
    ELSE IF lower(word) \in exceptions_use_an THEN TRUE
    ELSE IF lower(word) \in exceptions_use_a THEN FALSE
    ELSE IF \E p \in { <<"h", "o", "u", "r">>, <<"h", "o", "n", "e", "s", "t">>,
                       <<"h", "o", "n", "o", "r">>, <<"h", "o", "n", "o", "u", "r">>,
                       <<"h", "e", "i", "r">> } : startswith(lower(word), p)
         THEN TRUE
    ELSE IF /\ Lower(word[1]) = "u"
            /\ \E p \in { <<"u", "n", "i">>, <<"u", "s", "e">>, <<"u", "s", "u">>,
                          <<"u", "t", "i">>, <<"u", "f", "o">> } :
                   startswith(lower(word), p)
         THEN FALSE
    ELSE word[1] \in {"a", "e", "i", "o", "u", "A", "E", "I", "O", "U"}

\* re.finditer(r'\b(a|an)\s+(\w+)', text, re.IGNORECASE): the positions of
\* the articles matched from word i on; a match takes the article and the
\* word after it, and the search goes on behind that word
RECURSIVE ArticleMatches(_, _)
ArticleMatches(words, i) ==
    IF i >= Len(words) THEN {}
    ELSE IF lower(words[i]) \in {<<"a">>, <<"a", "n">>}
         THEN {i} \cup ArticleMatches(words, i + 2)
         ELSE ArticleMatches(words, i + 1)

\* ArticlesAAn.score
ArticlesAAnScore(words) ==
    LET checks == ArticleMatches(words, 1)
        errors == {i \in checks :
                      \/ lower(words[i]) = <<"a">>
                            /\ _should_use_an(words[i + 1])
                      \/ lower(words[i]) = <<"a", "n">>
                            /\ ~_should_use_an(words[i + 1])}
    IN [name |-> "articles_a_an",
        score |-> Clamped(Cardinality(errors), Cardinality(checks)),
        checked |-> Cardinality(checks),
        errors |-> Cardinality(errors)]

\* the misspellings known to the checker: the common_errors of
\* lang/en/common_misspellings.json and double_letter_errors
common_errors == { <<"t", "e", "h">> }

error_to_correct ==
    common_errors \cup
    { <<"u", "n", "t", "i", "l", "l">>,
      <<"a", "l", "l", "w", "a", "y", "s">>,
      <<"w", "e", "l", "l", "c", "o", "m", "e">>,
      <<"t", "o", "m", "m", "o", "r", "r", "o", "w">>,
      <<"d", "i", "s", "s", "a", "p", "p", "o", "i", "n", "t">>,
      <<"o", "c", "c", "a", "s", "s", "i", "o", "n">> }

\* the contractions without their apostrophe
contractions ==
    { <<"d", "o", "n", "t">>, <<"d", "o", "e", "s", "n", "t">>,
      <<"d", "i", "d", "n", "t">>, <<"w", "o", "n", "t">>,
      <<"c", "a", "n", "t">>, <<"c", "o", "u", "l", "d", "n", "t">>,
      <<"s", "h", "o", "u", "l", "d", "n", "t">>,
      <<"w", "o", "u", "l", "d", "n", "t">>, <<"i", "s", "n", "t">>,
      <<"a", "r", "e", "n", "t">>, <<"w", "a", "s", "n", "t">>,
      <<"w", "e", "r", "e", "n", "t">>, <<"h", "a", "s", "n", "t">>,
      <<"h", "a", "v", "e", "n", "t">>, <<"h", "a", "d", "n", "t">> }

\* word.strip('.,!?;:"\''): the characters taken from both ends
RECURSIVE strip(_, _)
strip(word, chars) ==
    IF word = <<>> THEN word
    ELSE IF word[1] \in chars THEN strip(Tail(word), chars)
    ELSE IF word[Len(word)] \in chars
         THEN strip(SubSeq(word, 1, Len(word) - 1), chars)
    ELSE word

\* SpellingChecker._check_word_spelling: is the word an error
_check_word_spelling(word) ==
    LET word_lower == lower(strip(word, {".", ",", "!", "?", ";", ":", QUOTE, "'"}))
    IN word_lower \in error_to_correct \/ word_lower \in contractions

\* SpellingChecker.score; words is what re.findall finds in the text
SpellingCheckerScore(words) ==
    LET errors == {i \in 1..Len(words) : _check_word_spelling(words[i])}
    IN [name |-> "spelling",
        score |-> Clamped(Cardinality(errors), Len(words)),
        checked |-> Len(words),
        errors |-> Cardinality(errors)]

He == <<"h", "e">>
She == <<"s", "h", "e">>
It == <<"i", "t">>
They == <<"t", "h", "e", "y">>
The == <<"t", "h", "e">>
Is == <<"i", "s">>
Was == <<"w", "a", "s">>
Are == <<"a", "r", "e">>
Were == <<"w", "e", "r", "e">>
Am == <<"a", "m">>
Has == <<"h", "a", "s">>
Have == <<"h", "a", "v", "e">>
Does == <<"d", "o", "e", "s">>
Do == <<"d", "o">>
FullStop == <<".">>

singular_subjects ==
    { <<"h", "e">>, <<"s", "h", "e">>, <<"i", "t">>,
      <<"t", "h", "i", "s">>, <<"t", "h", "a", "t">>,
      <<"e", "v", "e", "r", "y", "o", "n", "e">>,
      <<"e", "v", "e", "r", "y", "b", "o", "d", "y">>,
      <<"s", "o", "m", "e", "o", "n", "e">>,
      <<"s", "o", "m", "e", "b", "o", "d", "y">>,
      <<"a", "n", "y", "o", "n", "e">>,
      <<"a", "n", "y", "b", "o", "d", "y">>,
      <<"n", "o", "b", "o", "d", "y">>, <<"e", "a", "c", "h">>,
      <<"e", "i", "t", "h", "e", "r">>,
      <<"n", "e", "i", "t", "h", "e", "r">>, <<"o", "n", "e">>,
      <<"e", "v", "e", "r", "y">>, <<"a">>, <<"a", "n">> }

plural_subjects ==
    { <<"t", "h", "e", "y">>, <<"w", "e">>, <<"t", "h", "e", "s", "e">>,
      <<"t", "h", "o", "s", "e">>, <<"m", "a", "n", "y">>,
      <<"f", "e", "w">>, <<"s", "e", "v", "e", "r", "a", "l">>,
      <<"b", "o", "t", "h">>, <<"a", "l", "l">>, <<"s", "o", "m", "e">>,
      <<"m", "o", "s", "t">> }

\* SubjectVerbAgreement._identify_subject_type; the subject is one word, or
\* an article or determiner and a noun ("no one" and a subject with " and "
\* in it are not among the subjects the patterns give)
_identify_subject_type(subject) ==
    LET last == lower(subject[Len(subject)])
    IN IF Len(subject) = 1 /\ last = <<"i">> THEN "first_person_singular"
       ELSE IF Len(subject) = 1 /\ last = <<"y", "o", "u">> THEN "second_person"
       ELSE IF Len(subject) = 1 /\ last \in singular_subjects THEN "singular"
       ELSE IF Len(subject) = 1 /\ last \in plural_subjects THEN "plural"
       ELSE IF endswith(last, <<"s">>) /\ ~endswith(last, <<"s", "s">>)
            THEN "plural"
       ELSE "singular"

\* SubjectVerbAgreement._check_verb_agreement: is the pair an error
_check_verb_agreement(subject, verb) ==
    LET subject_type == _identify_subject_type(subject)
        verb_lower == lower(verb)
        third == Len(subject) = 1 /\ lower(subject[1]) \in {He, She, It}
    IN IF verb_lower \in {Is, Was, Are, Were, Am}
       THEN \/ subject_type = "singular" /\ verb_lower \in {Are, Were}
            \/ subject_type = "plural" /\ verb_lower \in {Is, Was}
            \/ subject_type = "first_person_singular"
                 /\ verb_lower \notin {Am, Was}
       ELSE IF verb_lower \in {Has, Have}
       THEN \/ /\ subject_type \in {"singular", "first_person_singular"}
               /\ verb_lower = Have
               /\ third
            \/ subject_type = "plural" /\ verb_lower = Has
       ELSE IF verb_lower \in {Does, Do}
       THEN \/ subject_type = "plural" /\ verb_lower = Does
            \/ subject_type = "singular" /\ third /\ verb_lower = Do
       ELSE IF /\ subject_type = "plural"
               /\ endswith(verb_lower, <<"s">>)
               /\ ~endswith(verb_lower, <<"s", "s">>)
       THEN TRUE
       ELSE IF subject_type = "singular" /\ third
       THEN /\ ~endswith(verb_lower, <<"s">>)
            /\ verb_lower \notin
                 { <<"w", "a", "s">>, <<"i", "s">>, <<"h", "a", "s">>,
                   <<"d", "o", "e", "s">>, <<"c", "a", "n">>, <<"w", "i", "l", "l">>,
                   <<"w", "o", "u", "l", "d">>, <<"c", "o", "u", "l", "d">>,
                   <<"s", "h", "o", "u", "l", "d">>, <<"m", "a", "y">>,
                   <<"m", "i", "g", "h", "t">> }
       ELSE FALSE

\* the sentences of a text: re.split(r'[.!?]+', text.strip()), the empty
\* ones left out
RECURSIVE SentencesFrom(_, _)
SentencesFrom(words, sent) ==
    IF words = <<>> THEN (IF sent = <<>> THEN <<>> ELSE <<sent>>)
    ELSE IF Head(words) = FullStop
         THEN (IF sent = <<>> THEN <<>> ELSE <<sent>>)
                 \o SentencesFrom(Tail(words), <<>>)
         ELSE SentencesFrom(Tail(words), Append(sent, Head(words)))

\* the four patterns: the words a match may start with (none: any word,
\* at the start of the sentence only) and the number of words matched
patterns ==
    << [heads |-> {<<"i">>, <<"y", "o", "u">>, He, She, It, <<"w", "e">>, They},
        words |-> 2, anchored |-> FALSE],
       [heads |-> {<<"a">>, <<"a", "n">>, The}, words |-> 3, anchored |-> FALSE],
       [heads |-> {<<"t", "h", "i", "s">>, <<"t", "h", "a", "t">>,
                   <<"t", "h", "e", "s", "e">>, <<"t", "h", "o", "s", "e">>,
                   <<"e", "v", "e", "r", "y">>, <<"e", "a", "c", "h">>},
        words |-> 3, anchored |-> FALSE],
       [heads |-> {}, words |-> 2, anchored |-> TRUE] >>

\* re.finditer(pattern, sent, re.IGNORECASE): where the matches start
RECURSIVE Matches(_, _, _)
Matches(pattern, sent, i) ==
    IF i + pattern.words - 1 > Len(sent) THEN <<>>
    ELSE IF pattern.anchored THEN (IF i = 1 THEN <<1>> ELSE <<>>)
    ELSE IF lower(sent[i]) \in pattern.heads
         THEN <<i>> \o Matches(pattern, sent, i + pattern.words)
         ELSE Matches(pattern, sent, i + 1)

not_a_verb ==
    { The, <<"a">>, <<"a", "n">>, <<"a", "n", "d">>, <<"o", "r">>,
      <<"b", "u", "t">>, <<"w", "i", "t", "h">>, <<"t", "o">>,
      <<"f", "o", "r">>, <<"i", "n">>, <<"o", "n">>, <<"a", "t">> }

\* the first match of the pattern whose last word may be a verb (0: none)
FirstCheck(pattern, sent) ==
    LET starts == Matches(pattern, sent, 1)
        valid == SelectSeq(starts,
                    LAMBDA i : lower(sent[i + pattern.words - 1]) \notin not_a_verb)
    IN IF valid = <<>> THEN 0 ELSE valid[1]

\* SubjectVerbAgreement.score: every pattern gives a sentence at most one
\* check (the break leaves the loop over the matches of that pattern only)
SubjectVerbAgreementScore(words) ==
    LET sentences == SentencesFrom(words, <<>>)
        checks == {c \in (1..Len(sentences)) \X (1..Len(patterns)) :
                      FirstCheck(patterns[c[2]], sentences[c[1]]) # 0}
        errors == {c \in checks :
                      LET sent == sentences[c[1]]
                          n == patterns[c[2]].words
                          i == FirstCheck(patterns[c[2]], sent)
                      IN _check_verb_agreement(SubSeq(sent, i, i + n - 2),
                                               sent[i + n - 1])}
    IN [name |-> "subject_verb_agreement",
        score |-> Clamped(Cardinality(errors), Cardinality(checks)),
        checked |-> Cardinality(checks),
        errors |-> Cardinality(errors)]

\* the characters that are neither letters nor digits
NonWord == {" ", ".", ",", "!", "?", ";", ":", QUOTE, "'", Okina, NL}
islower(c) == c \notin NonWord /\ Lower(c) = c
isupper(c) == Lower(c) # c
sentence_endings == {".", "!", "?"}

common_abbreviations ==
    { <<"m", "r">>, <<"m", "r", "s">>, <<"m", "s">>, <<"d", "r">>,
      <<"p", "r", "o", "f">>, <<"s", "r">>, <<"j", "r">>, <<"v", "s">>,
      <<"e", "t", "c">>, <<"i", "n", "c">>, <<"l", "t", "d">>,
      <<"c", "o", "r", "p">>, <<"j", "a", "n">>, <<"f", "e", "b">>,
      <<"m", "a", "r">>, <<"a", "p", "r">>, <<"j", "u", "n">>,
      <<"j", "u", "l">>, <<"a", "u", "g">>, <<"s", "e", "p">>,
      <<"s", "e", "p", "t">>, <<"o", "c", "t">>, <<"n", "o", "v">>,
      <<"d", "e", "c">>, <<"m", "o", "n">>, <<"t", "u", "e">>,
      <<"w", "e", "d">>, <<"t", "h", "u">>, <<"f", "r", "i">>,
      <<"s", "a", "t">>, <<"s", "u", "n">>, <<"s", "t">>, <<"n", "d">>,
      <<"r", "d">>, <<"t", "h">> }

\* where the run of characters of S that holds position i ends
RECURSIVE RunEnd(_, _, _)
RunEnd(text, S, i) ==
    IF i < Len(text) /\ text[i + 1] \in S THEN RunEnd(text, S, i + 1) ELSE i

\* the runs of characters of S in the text that cannot be made longer, as
\* pairs of their first and last position
Runs(text, S) ==
    {<<i, RunEnd(text, S, i)>> :
        i \in {j \in 1..Len(text) :
                  text[j] \in S /\ (j = 1 \/ text[j - 1] \notin S)}}

\* PunctuationChecker._check_sentence_punctuation: the number of errors
_check_sentence_punctuation(text) ==
    LET text_stripped == strip(text, {" ", NL})
        missing_end_punctuation ==
            IF /\ text_stripped # <<>>
               /\ text_stripped[Len(text_stripped)] \notin sentence_endings
            THEN 1 ELSE 0
        incorrect_quote_punctuation ==
            IF \/ endswith(text_stripped, <<QUOTE, ".">>)
               \/ endswith(text_stripped, <<"'", ".">>)
            THEN 1 ELSE 0
        multiple_punctuation ==
            {r \in Runs(text, sentence_endings) :
                /\ r[2] > r[1]
                /\ SubSeq(text, r[1], r[2]) \notin
                      {<<"?", "!">>, <<"!", "?">>, <<".", ".", ".">>}}
    IN missing_end_punctuation + incorrect_quote_punctuation
          + Cardinality(multiple_punctuation)

\* str.rstrip(chars)
RECURSIVE rstrip(_, _)
rstrip(word, chars) ==
    IF word # <<>> /\ word[Len(word)] \in chars
    THEN rstrip(SubSeq(word, 1, Len(word) - 1), chars)
    ELSE word

\* where the word that ends at position i starts
RECURSIVE WordStart(_, _)
WordStart(text, i) ==
    IF i = 0 \/ text[i] \in {" ", NL} THEN i + 1 ELSE WordStart(text, i - 1)

\* prev_sent.split()[-1].rstrip('.').lower(), of the sentence that ends at
\* position i
LastWordBefore(text, i) ==
    lower(rstrip(SubSeq(text, WordStart(text, i), i), {"."}))

\* PunctuationChecker._check_capitalization: the number of errors
_check_capitalization(text) ==
    LET text_stripped == strip(text, {" ", NL})
        missing_capital_start ==
            IF text_stripped # <<>> /\ islower(text_stripped[1]) THEN 1 ELSE 0
        \* re.split(r'(?<=[.!?])\s+', text): a sentence starts behind the
        \* white space that follows an end of sentence
        spaces == Runs(text, {" ", NL})
        missing_capital_after_period ==
            {r \in spaces :
                /\ r[1] > 1
                /\ text[r[1] - 1] \in sentence_endings
                /\ r[2] < Len(text)
                /\ islower(text[r[2] + 1])
                /\ LastWordBefore(text, r[1] - 1) \notin common_abbreviations}
        \* \b\w*[a-z][A-Z]\w*\b: the words with a capital behind a small
        \* letter, but for words like iPhone and eBay
        unexpected_capital ==
            {r \in Runs(text, {c \in Range(text) : c \notin NonWord}) :
                /\ \E i \in r[1]..(r[2] - 1) :
                       islower(text[i]) /\ isupper(text[i + 1])
                /\ text[r[1]] \notin {"i", "e"} \/ r[2] - r[1] + 1 < 4}
    IN missing_capital_start + Cardinality(missing_capital_after_period)
          + Cardinality(unexpected_capital)

\* PunctuationChecker._check_comma_usage: the number of errors
_check_comma_usage(text) ==
    LET missing_space_after_comma ==
            {i \in 1..(Len(text) - 1) :
                text[i] = "," /\ text[i + 1] \notin NonWord}
        space_before_comma ==
            {i \in 1..(Len(text) - 1) : text[i] = " " /\ text[i + 1] = ","}
        double_comma == {r \in Runs(text, {","}) : r[2] > r[1]}
    IN Cardinality(missing_space_after_comma)
          + Cardinality(space_before_comma) + Cardinality(double_comma)

\* PunctuationChecker.score
PunctuationCheckerScore(text) ==
    LET all_errors == _check_sentence_punctuation(text)
                         + _check_capitalization(text)
                         + _check_comma_usage(text)
        sentences ==
            Cardinality(Runs(strip(text, {" ", NL}), sentence_endings)) + 1
        commas == Cardinality({i \in 1..Len(text) : text[i] = ","})
        total_checks == sentences * 2 + commas + 1
    IN [name |-> "punctuation",
        score |-> Clamped(all_errors, total_checks),
        checked |-> total_checks,
        errors |-> all_errors]

(***************************************************************************)
(* The metrics are called on the texts of at most MaxWords words, and the  *)
(* punctuation metric on the texts of at most MaxText characters.          *)
(***************************************************************************)
DiacriticsWords ==
    { <<Okina, "a-", "i", "n", "a">>, <<Okina, "a", "i", "n", "a">>,
      <<"A", "i", "n", "a", ".">>, <<"k", "a">> }

TAMWords ==
    { Aole, <<"u", "a">>, <<"e">>, <<"h", "e", "l", "e">>, <<"n", "e", "i">>,
      <<"K", "e">> }

KeKaWords ==
    { <<"k", "e">>, <<"K", "a">>, <<"k", "e", "i", "k", "i">>,
      <<"h", "a", "l", "e", ".">>, <<"p", "a-">>,
      <<Okina, "a-", "i", "n", "a">> }

AAnWords ==
    { <<"a">>, <<"A", "n">>, <<"a", "p", "p", "l", "e">>, <<"d", "o", "g">>,
      <<"h", "o", "u", "r">>, <<"u", "n", "i", "t">>, <<"o", "n", "e">> }

SpellingWords ==
    { <<"U", "n", "t", "i", "l", "l">>, <<"d", "o", "n", "t">>,
      <<"t", "e", "h">>, <<"u", "n", "t", "i", "l">> }

SubjectVerbWords ==
    { <<"H", "e">>, They, The, <<"d", "o", "g", "s">>, <<"r", "u", "n">>,
      <<"r", "u", "n", "s">>, Are, Have, FullStop }

PunctuationChars == {"a", "A", " ", ".", ",", QUOTE}

\* the texts of at most n words (or characters) of S
TextsUpTo(S, n) == UNION {[1..m -> S] : m \in 0..n}

Scored(fn, r) ==
    /\ arg.fn = fn
    /\ out = NoOut
    /\ out' = [fn |-> fn, name |-> r.name, score |-> r.score,
               checked |-> r.checked, errors |-> r.errors]
    /\ UNCHANGED arg

CallDiacritics ==
    Scored("Diacritics.score", DiacriticsScore(arg.text, arg.required_forms))

CallTAMParticles ==
    /\ arg.fn = "TAMParticles.score"
    /\ out = NoOut
    /\ LET r == TAMParticlesScore(arg.text)
       IN out' = [fn |-> arg.fn, name |-> r.name, score |-> r.score,
                  details |-> r.details]
    /\ UNCHANGED arg

CallArticlesKeKa == Scored("ArticlesKeKa.score", ArticlesKeKaScore(arg.text))

CallArticlesAAn == Scored("ArticlesAAn.score", ArticlesAAnScore(arg.text))

CallSpellingChecker ==
    Scored("SpellingChecker.score", SpellingCheckerScore(arg.text))

CallSubjectVerbAgreement ==
    Scored("SubjectVerbAgreement.score", SubjectVerbAgreementScore(arg.text))

CallPunctuationChecker ==
    Scored("PunctuationChecker.score", PunctuationCheckerScore(arg.text))

InitMetrics ==
    /\ \/ arg \in [fn : {"Diacritics.score"},
                   text : TextsUpTo(DiacriticsWords, MaxWords),
                   required_forms : Orders(lex_diacritics)]
       \/ arg \in [fn : {"TAMParticles.score"}, text : TextsUpTo(TAMWords, MaxWords)]
       \/ arg \in [fn : {"ArticlesKeKa.score"},
                   text : TextsUpTo(KeKaWords, MaxWords)]
       \/ arg \in [fn : {"ArticlesAAn.score"}, text : TextsUpTo(AAnWords, MaxWords)]
       \/ arg \in [fn : {"SpellingChecker.score"},
                   text : TextsUpTo(SpellingWords, MaxWords)]
       \/ arg \in [fn : {"SubjectVerbAgreement.score"},
                   text : TextsUpTo(SubjectVerbWords, MaxWords)]
       \/ arg \in [fn : {"PunctuationChecker.score"},
                   text : TextsUpTo(PunctuationChars, MaxText)]
    /\ out = NoOut
    /\ files = Empty
    /\ loggers = <<>>
    /\ clock = 0
    /\ tasks = <<>>
    /\ current = 0
    /\ bandit = NoBandit
    /\ ret = NoCall
    /\ calls = 0
    /\ stateFile = NoFile
    /\ savedFrom = NoBandit
    /\ fresh = NoBandit
    /\ LANG_CONFIGS = Empty
    /\ METRICS = Empty
    /\ GENERATORS = Empty
    /\ BANDITS = Empty
    /\ BIDIRECTIONAL_GENERATOR = FALSE
    /\ SHOWCASE_GENERATOR = FALSE
    /\ pc = "boot"
    /\ request = NoRequest
    /\ seg = 0
    /\ prompt = ""
    /\ candidates = <<>>
    /\ scored_candidates = <<>>
    /\ results = <<>>
    /\ response = NoResponse
    /\ segStart = NoBandit
    /\ accepted = 0

MetricsNext ==
    \/ CallDiacritics /\ UNCHANGED <<bvars, svars, lvars, evars>>
    \/ CallTAMParticles /\ UNCHANGED <<bvars, svars, lvars, evars>>
    \/ CallArticlesKeKa /\ UNCHANGED <<bvars, svars, lvars, evars>>
    \/ CallArticlesAAn /\ UNCHANGED <<bvars, svars, lvars, evars>>
    \/ CallSpellingChecker /\ UNCHANGED <<bvars, svars, lvars, evars>>
    \/ CallSubjectVerbAgreement /\ UNCHANGED <<bvars, svars, lvars, evars>>
    \/ CallPunctuationChecker /\ UNCHANGED <<bvars, svars, lvars, evars>>

SpecMetrics == InitMetrics /\ [][MetricsNext]_vars

(***************************************************************************)
(* The gym runner: rlvr/gym/run.py, main, run on the haw pack with the     *)
(* mock generator, --k 2 and --epsilon 0 over a dataset of MaxExamples     *)
(* examples.  seg counts the examples processed.                           *)
(***************************************************************************)
\* MockGenerator.generate(src, 2) for a source it knows
MockCandidates == <<Fluent, Flawed>>

\* bandit = EpsilonGreedyBandit(prompt_variants, epsilon=args.epsilon)
GymBandit ==
    NewBandit(PromptVariants(PackFile("haw").prompt_template), Zero, Half)

\* the path of the results file
OutputPath == "audit/runs/run_TIMESTAMP.jsonl"

\* prompt = bandit.pick()
GymPick ==
    /\ pc = "gym_pick"
    /\ seg < MaxExamples
    /\ \E u \in RandomDraws, i \in 1..Len(bandit.prompts) :
           LET r == BanditPick(bandit, u, i)
           IN /\ bandit' = r.bandit
              /\ prompt' = r.prompt
    /\ pc' = "gym_generate"
    /\ UNCHANGED <<ret, calls, stateFile, savedFrom, fresh, gvars, request, seg,
                   candidates, scored_candidates, results, response, segStart,
                   accepted, uvars, lvars>>

\* the candidates are generated, scored and sorted, the bandit is updated
\* with the best R, and the result is stored
GymScoreAndUpdate ==
    /\ pc = "gym_generate"
    /\ LET pack == PackFile("haw")
           sorted == SortByR(ScoreCandidates(MockCandidates, pack.metrics,
                                             pack.weights))
           best == BestCandidate(sorted)
           u == BanditUpdate(bandit, prompt, best.R)
       IN /\ candidates' = MockCandidates
          /\ scored_candidates' = sorted
          /\ bandit' = u.bandit
          /\ results' = Append(results, [example_id |-> seg + 1,
                                         best |-> best.tgt,
                                         prompt |-> prompt])
    /\ seg' = seg + 1
    /\ pc' = "gym_pick"
    /\ UNCHANGED <<ret, calls, stateFile, savedFrom, fresh, gvars, request,
                   prompt, response, segStart, accepted, uvars, lvars>>

\* the results are written to the output file, one JSON line for each
GymSaveResults ==
    /\ pc = "gym_pick"
    /\ seg = MaxExamples
    /\ files' = [f \in DOMAIN files \cup {OutputPath} |->
                    IF f = OutputPath
                    THEN [i \in 1..(2 * Len(results)) |->
                             IF i % 2 = 1 THEN ToString(results[(i + 1) \div 2].example_id)
                             ELSE NL]
                    ELSE files[f]]
    /\ pc' = "gym_done"
    /\ UNCHANGED <<bvars, gvars, request, seg, prompt, candidates,
                   scored_candidates, results, response, segStart, accepted,
                   uvars, loggers, clock>>

InitGym ==
    /\ bandit = GymBandit
    /\ pc = "gym_pick"
    /\ seg = 0
    /\ prompt = ""
    /\ candidates = <<>>
    /\ scored_candidates = <<>>
    /\ results = <<>>
    /\ ret = NoCall
    /\ calls = 0
    /\ stateFile = NoFile
    /\ savedFrom = NoBandit
    /\ fresh = NoBandit
    /\ LANG_CONFIGS = Empty
    /\ METRICS = Empty
    /\ GENERATORS = Empty
    /\ BANDITS = Empty
    /\ BIDIRECTIONAL_GENERATOR = FALSE
    /\ SHOWCASE_GENERATOR = FALSE
    /\ request = NoRequest
    /\ response = NoResponse
    /\ segStart = NoBandit
    /\ accepted = 0
    /\ arg = NoArg
    /\ out = NoOut
    /\ files = Empty
    /\ loggers = <<>>
    /\ clock = 0
    /\ tasks = <<>>
    /\ current = 0

GymNext ==
    \/ GymPick /\ UNCHANGED evars
    \/ GymScoreAndUpdate /\ UNCHANGED evars
    \/ GymSaveResults /\ UNCHANGED evars

SpecGym == InitGym /\ [][GymNext]_vars

(***************************************************************************)
(* The event loop of the server with several /translate requests for the  *)
(* haw pack in flight.  Each request is a coroutine of the one event loop  *)
(* of uvicorn.run(app); a coroutine keeps the loop until it awaits or      *)
(* returns.  tasks[i] holds the locals of coroutine i: its mode, n (the    *)
(* number of its segments), seg, pc, prompt and R (the best R of the       *)
(* segment), and two observations: mark, the length of the bandit's        *)
(* history after the pick of the segment, and overlapped, whether the      *)
(* request arrived while a segment of another request was between its pick *)
(* and its update.                                                         *)
(***************************************************************************)
\* whether the coroutine gives the event loop up while the generator works
AwaitsGeneratorCall == TRUE

\* translate holds no await: generator.generate and generator.translate are
\* plain calls, so the coroutine never gives the event loop up
AwaitsGenerator == FALSE

LoopLang == "haw"
MidPair == {"picked", "ranked"}

\* a request arrives while the server is running
Arrive ==
    /\ accepted < MaxSegments
    /\ \E mode \in {"standard", "rlvr"}, n \in 1..(MaxSegments - accepted) :
          /\ tasks' = Append(tasks,
                 [mode |-> mode, n |-> n, seg |-> 1, pc |-> "queued",
                  prompt |-> "", R |-> Zero, mark |-> 0,
                  overlapped |-> \E j \in 1..Len(tasks) :
                                    /\ tasks[j].mode = "rlvr"
                                    /\ tasks[j].pc \in MidPair])
          /\ accepted' = accepted + n
    /\ UNCHANGED <<bvars, gvars, pc, request, seg, prompt, candidates,
                   scored_candidates, results, response, segStart, uvars,
                   lvars, current>>

\* the event loop, free, starts the coroutine of a request or resumes one
\* that was awaiting
RunTask ==
    /\ current = 0
    /\ \E i \in 1..Len(tasks) :
          /\ tasks[i].pc # "done"
          /\ current' = i
          /\ tasks' = [tasks EXCEPT ![i].pc =
                           IF @ = "queued" THEN "loop" ELSE @]
    /\ UNCHANGED <<bvars, svars, uvars, lvars>>

\* rlvr mode: prompt = bandit.pick()
TaskPick ==
    /\ current # 0
    /\ tasks[current].pc = "loop"
    /\ tasks[current].seg <= tasks[current].n
    /\ tasks[current].mode = "rlvr"
    /\ \E u \in RandomDraws, i \in 1..Len(BANDITS[LoopLang].prompts) :
          LET r == BanditPick(BANDITS[LoopLang], u, i)
          IN /\ BANDITS' = [BANDITS EXCEPT ![LoopLang] = r.bandit]
             /\ tasks' = [tasks EXCEPT ![current].pc = "picked",
                                       ![current].prompt = r.prompt,
                                       ![current].mark = Len(r.bandit.history)]
    /\ UNCHANGED <<bvars, LANG_CONFIGS, METRICS, GENERATORS,
                   BIDIRECTIONAL_GENERATOR, SHOWCASE_GENERATOR, hvars, uvars,
                   lvars, current>>

\* the candidates are generated (k of them in rlvr mode, one in standard
\* mode, with the base prompt), scored and sorted
TaskGenerateAndScore ==
    /\ current # 0
    /\ LET t == tasks[current]
           cfg == LANG_CONFIGS[LoopLang]
       IN /\ \/ t.mode = "rlvr" /\ t.pc = "picked"
             \/ t.mode = "standard" /\ t.pc = "loop" /\ t.seg <= t.n
          /\ \E c \in GeneratorOutputs(GENERATORS[LoopLang],
                         IF t.mode = "rlvr" THEN cfg.k_samples ELSE 1) :
                LET sorted == SortByR(ScoreCandidates(c, METRICS[LoopLang],
                                                      cfg.weights))
                IN tasks' = [tasks EXCEPT
                       ![current].pc = "ranked",
                       ![current].R = BestCandidate(sorted).R,
                       ![current].prompt =
                           IF t.mode = "rlvr" THEN @ ELSE cfg.prompt_template]
    /\ current' = IF AwaitsGenerator THEN 0 ELSE current
    /\ UNCHANGED <<bvars, svars, uvars, lvars>>

\* bandit.update(prompt, best["R"]) and results.append(result)
TaskUpdate ==
    /\ current # 0
    /\ tasks[current].pc = "ranked"
    /\ BANDITS' = [BANDITS EXCEPT ![LoopLang] =
                       BanditUpdate(@, tasks[current].prompt,
                                    tasks[current].R).bandit]
    /\ tasks' = [tasks EXCEPT ![current].pc = "loop",
                              ![current].seg = @ + 1]
    /\ UNCHANGED <<bvars, LANG_CONFIGS, METRICS, GENERATORS,
                   BIDIRECTIONAL_GENERATOR, SHOWCASE_GENERATOR, hvars, uvars,
                   lvars, current>>

\* return TranslateResponse(results=results): the event loop is free
TaskReturn ==
    /\ current # 0
    /\ tasks[current].pc = "loop"
    /\ tasks[current].seg > tasks[current].n
    /\ tasks' = [tasks EXCEPT ![current].pc = "done"]
    /\ current' = 0
    /\ UNCHANGED <<bvars, svars, uvars, lvars>>

\* the server after a start-up that loaded the haw pack
InitLoop ==
    /\ LET g == initialize_language(
                    [LANG_CONFIGS |-> Empty, METRICS |-> Empty,
                     GENERATORS |-> Empty, BANDITS |-> Empty],
                    LoopLang).globals
       IN /\ LANG_CONFIGS = g.LANG_CONFIGS
          /\ METRICS = g.METRICS
          /\ GENERATORS = g.GENERATORS
          /\ BANDITS = g.BANDITS
    /\ BIDIRECTIONAL_GENERATOR = FALSE
    /\ SHOWCASE_GENERATOR = FALSE
    /\ tasks = <<>>
    /\ current = 0
    /\ accepted = 0
    /\ pc = "idle"
    /\ request = NoRequest
    /\ seg = 0
    /\ prompt = ""
    /\ candidates = <<>>
    /\ scored_candidates = <<>>
    /\ results = <<>>
    /\ response = NoResponse
    /\ segStart = NoBandit
    /\ bandit = NoBandit
    /\ ret = NoCall
    /\ calls = 0
    /\ stateFile = NoFile
    /\ savedFrom = NoBandit
    /\ fresh = NoBandit
    /\ arg = NoArg
    /\ out = NoOut
    /\ files = Empty
    /\ loggers = <<>>
    /\ clock = 0

LoopNext ==
    \/ Arrive
    \/ RunTask
    \/ TaskPick
    \/ TaskGenerateAndScore
    \/ TaskUpdate
    \/ TaskReturn

SpecLoop == InitLoop /\ [][LoopNext]_vars

(***************************************************************************)
(* Properties of the stand-alone bandit (checked under SpecBandit).        *)
(***************************************************************************)
\* the update entries of a history that name prompt p
UpdatesOf(history, p) ==
    {i \in 1..Len(history) :
        history[i].type = "update" /\ history[i].prompt = p}

RECURSIVE SumRewards(_, _)
SumRewards(history, idx) ==
    IF idx = {} THEN Zero
    ELSE LET i == CHOOSE j \in idx : TRUE
         IN RAdd(history[i].reward, SumRewards(history, idx \ {i}))

\* C1: a prompt that was updated n >= 1 times holds the arithmetic mean of
\* the n rewards it was updated with, whatever its initial value and
\* whatever picks and updates of other prompts came in between.
C1_ValueIsMean ==
    \A p \in Range(bandit.prompts) :
        LET idx == UpdatesOf(bandit.history, p) IN
        idx # {} =>
            bandit.values[p] =
                RDivInt(SumRewards(bandit.history, idx), Cardinality(idx))

C1_Witness ==
    \E p \in Range(bandit.prompts) :
        /\ Cardinality(UpdatesOf(bandit.history, p)) = 3
        /\ bandit.values[p] = <<1, 3>>
        /\ bandit.total_selections >= 1

\* C3: with an initial value and rewards in [0, 1], every value stays in
\* [0, 1] and every count stays >= 0.
C3_ValuesInUnitInterval ==
    \A p \in Range(bandit.prompts) :
        /\ RLe(Zero, bandit.values[p])
        /\ RLe(bandit.values[p], One)
        /\ bandit.counts[p] >= 0

C3_Witness ==
    /\ \E p, q \in Range(bandit.prompts) :
           /\ bandit.values[p] = Zero
           /\ bandit.values[q] = One
           /\ bandit.counts[p] >= 1
           /\ bandit.counts[q] >= 1
    /\ bandit.total_selections >= 1

\* position of the first occurrence of p in a prompt list
IndexOf(prompts, p) ==
    CHOOSE i \in 1..Len(prompts) :
        prompts[i] = p /\ \A j \in 1..(i - 1) : prompts[j] # p

\* C4: with epsilon = 0, pick returns a prompt of maximal value, and among
\* the prompts of maximal value the one that comes first in the list.
C4_ExploitPicksFirstMax ==
    (ret.op = "pick" /\ bandit.epsilon = Zero) =>
        /\ ret.prompt \in Range(bandit.prompts)
        /\ \A q \in Range(bandit.prompts) :
               RLe(bandit.values[q], bandit.values[ret.prompt])
        /\ \A j \in 1..(IndexOf(bandit.prompts, ret.prompt) - 1) :
               RLt(bandit.values[bandit.prompts[j]], bandit.values[ret.prompt])

C4_Witness ==
    /\ ret.op = "pick"
    /\ bandit.epsilon = Zero
    /\ ret.prompt = "B"
    /\ bandit.values["C"] = bandit.values["B"]
    /\ RLt(bandit.values["A"], bandit.values["B"])

\* C9: an update that names a prompt outside the prompt list raises the
\* unknown-prompt error (ValueError) and leaves the whole bandit (values,
\* counts, total_selections, history) as it was.
C9_UnknownPromptRejected ==
    [][(calls' # calls /\ ret'.op = "update"
            /\ ret'.prompt \notin Range(bandit.prompts))
        => (ret'.error = "ValueError" /\ bandit' = bandit)]_bvars

C9_Witness ==
    /\ ret.op = "update"
    /\ ret.prompt = UnknownPrompt
    /\ ret.error = "ValueError"
    /\ bandit.total_selections >= 1
    /\ \E p \in Range(bandit.prompts) : bandit.counts[p] >= 1

\* C10: right after load_state on the fresh bandit, its prompts, epsilon,
\* values, counts and total_selections are those the saved bandit had when
\* save_state wrote the file.
C10_SaveLoadRoundTrip ==
    ret.op = "load_state" =>
        /\ fresh.prompts = savedFrom.prompts
        /\ fresh.epsilon = savedFrom.epsilon
        /\ fresh.values = savedFrom.values
        /\ fresh.counts = savedFrom.counts
        /\ fresh.total_selections = savedFrom.total_selections

C10_Witness ==
    /\ ret.op = "load_state"
    /\ fresh.total_selections >= 1
    /\ \E p \in Range(fresh.prompts) :
           fresh.counts[p] >= 1 /\ fresh.values[p] # Half
    /\ fresh.prompts # <<"X">>

(***************************************************************************)
(* Properties of the /translate pipeline (checked under Spec).             *)
(***************************************************************************)
RECURSIVE SumCounts(_, _)
SumCounts(counts, ps) ==
    IF ps = {} THEN 0
    ELSE LET p == CHOOSE q \in ps : TRUE
         IN counts[p] + SumCounts(counts, ps \ {p})

TotalCount(b) == SumCounts(b.counts, DOMAIN b.counts)

\* a segment is between its pick and its update
MidSegment == pc \in {"picked", "generated", "ranked"}

\* C2: whenever no segment is between its pick and its update, the counts
\* of every bandit of the server add up to its total_selections.
C2_CountsEqualSelections ==
    ~MidSegment =>
        \A l \in DOMAIN BANDITS :
            TotalCount(BANDITS[l]) = BANDITS[l].total_selections

IsUpdate(e) == e.type = "update"

\* C5: the ranked list is a permutation of the scored candidates, ordered
\* by R non-increasing, candidates of equal R in generation order, and the
\* best reported in a result is the first of its list.
C5_RankedCandidates ==
    /\ pc = "ranked" =>
          LET n == Len(candidates)
              unsorted == ScoreCandidates(candidates, METRICS[request.tgt],
                                          lang_cfg.weights)
          IN /\ Len(scored_candidates) = n
             /\ n >= 1
             /\ \A i \in 1..n : \E j \in 1..n : scored_candidates[j] = unsorted[i]
             /\ \A i \in 1..n : unsorted[i].id = i - 1
                                /\ unsorted[i].tgt = candidates[i]
             /\ \A j, k \in 1..n :
                    j < k =>
                       /\ RLe(scored_candidates[k].R, scored_candidates[j].R)
                       /\ scored_candidates[k].R = scored_candidates[j].R
                             => scored_candidates[j].id < scored_candidates[k].id
    /\ \A i \in 1..Len(results) :
          /\ results[i].best = results[i].candidates[1].tgt
          /\ \A k \in 1..Len(results[i].candidates) :
                RLe(results[i].candidates[k].R, results[i].candidates[1].R)

C5_Witness ==
    /\ Len(results) = 2
    /\ Len(results[1].candidates) = 2
    /\ results[1].candidates[1].id = 1
    /\ RLt(results[1].candidates[2].R, results[1].candidates[1].R)
    /\ Len(results[2].candidates) = 2
    /\ results[2].candidates[1].R = results[2].candidates[2].R
    /\ results[2].candidates[1].id = 0

\* C6: a successful response holds one result per segment, the i-th with
\* the id of the i-th segment; while the request is handled the results so
\* far are those of the first segments, in order, and the bandit's updates
\* of the request are in the order of its segments.
C6_ResultsInSegmentOrder ==
    /\ (response.endpoint = "/translate" /\ response.status = 200) =>
          /\ Len(response.results) = Len(request.segments)
          /\ \A i \in 1..Len(request.segments) :
                response.results[i].id = request.segments[i]
    /\ pc \in {"loop", "picked", "generated", "ranked"} =>
          /\ Len(results) = seg - 1
          /\ \A i \in 1..Len(results) : results[i].id = request.segments[i]
          /\ request.mode # "showcase" =>
                LET ups == SelectSeq(BANDITS[request.tgt].history, IsUpdate)
                    off == Len(ups) - Len(results)
                IN /\ off >= 0
                   /\ \A i \in 1..Len(results) :
                         /\ ups[off + i].prompt = results[i].prompt
                         /\ ups[off + i].reward = results[i].candidates[1].R

C6_Witness ==
    /\ response.status = 200
    /\ Len(response.results) = 2
    /\ request.mode = "rlvr"
    /\ response.results[1].prompt # response.results[2].prompt
    /\ response.results[1].candidates[1].R # response.results[2].candidates[1].R

\* a segment of the current request has begun
SegmentBegun ==
    \/ pc \in {"picked", "generated", "ranked"}
    \/ Len(results) >= 1
    \/ Len(response.results) >= 1

\* C7: a segment processed in showcase mode leaves the bandit of the
\* target language as it was when the segment began.
C7_ShowcaseLeavesBandit ==
    (request.mode = "showcase" /\ SegmentBegun) =>
        BANDITS[request.tgt] = segStart

C7_Witness ==
    /\ request.mode = "showcase"
    /\ response.status = 200
    /\ Len(response.results) = 1
    /\ BANDITS[request.tgt].total_selections = 1
    /\ TotalCount(BANDITS[request.tgt]) = 1

\* C8: in rlvr mode the segment's pick is the one addition to the bandit's
\* history before and during generation, scoring and ranking, and when the
\* segment is done the history has gained that pick and then one update,
\* of the picked prompt, with the R of the top-ranked candidate.
C8_PickThenUpdate ==
    request.mode = "rlvr" =>
        LET b == BANDITS[request.tgt]
            h == b.history
            n == Len(segStart.history)
        IN /\ MidSegment =>
                /\ Len(h) = n + 1
                /\ SubSeq(h, 1, n) = segStart.history
                /\ h[n + 1].type \in {"explore", "exploit"}
                /\ h[n + 1].prompt = prompt
                /\ b.total_selections = segStart.total_selections + 1
                /\ b.counts = segStart.counts
                /\ b.values = segStart.values
           /\ (pc = "loop" /\ seg > 1) =>
                LET r == results[Len(results)] IN
                /\ Len(h) = n + 2
                /\ SubSeq(h, 1, n) = segStart.history
                /\ h[n + 1].type \in {"explore", "exploit"}
                /\ h[n + 1].prompt = r.prompt
                /\ h[n + 2].type = "update"
                /\ h[n + 2].prompt = r.prompt
                /\ h[n + 2].reward = r.candidates[1].R
                /\ \A k \in 1..Len(r.candidates) :
                      RLe(r.candidates[k].R, h[n + 2].reward)
                /\ b.total_selections = segStart.total_selections + 1
                /\ TotalCount(b) = TotalCount(segStart) + 1

C8_Witness ==
    /\ request.mode = "rlvr"
    /\ pc = "loop"
    /\ seg = 3
    /\ results[2].prompt # results[1].prompt
    /\ Len(results[2].candidates) = 2
    /\ RLt(results[2].candidates[2].R, results[2].candidates[1].R)

(***************************************************************************)
(* Error responses of the server (checked under Spec).                     *)
(***************************************************************************)
\* C11: when the candidate list of a segment is empty (a pack whose
\* k_samples is 0), the request ends with an error the handler defines (an
\* HTTPException it raises), not with an exception that escapes the handler.
C11_EmptyCandidatesDefinedError ==
    [][(pc = "generated" /\ candidates = <<>>)
          => (pc' = "idle" /\ response'.raised = "HTTPException")]_vars

\* the request names a language code that has no pack
NoPack(r) == r.src \notin PacksOnDisk \/ r.tgt \notin PacksOnDisk

\* C12: a /translate request whose src or tgt has no language pack is
\* answered 400 at once: the handler does not enter the segment loop, and
\* every bandit is as it was before the request (a bandit created for the
\* other language of the request has no pick and no update).
C12_UnknownLanguageRejected ==
    [][(pc = "idle" /\ NoPack(request')
            /\ (pc' # "idle" \/ response'.endpoint = "/translate"))
        => /\ pc' = "idle"
           /\ response'.status = 400
           /\ response'.raised = "HTTPException"
           /\ response'.results = <<>>
           /\ \A l \in DOMAIN BANDITS :
                  l \in DOMAIN BANDITS' /\ BANDITS'[l] = BANDITS[l]
           /\ \A l \in DOMAIN BANDITS' \ DOMAIN BANDITS :
                  /\ BANDITS'[l].history = <<>>
                  /\ BANDITS'[l].total_selections = 0
                  /\ TotalCount(BANDITS'[l]) = 0]_vars

C12_Witness ==
    /\ pc = "idle"
    /\ request.tgt = "xx"
    /\ Len(request.segments) >= 1
    /\ response.endpoint = "/translate"
    /\ response.status = 400
    /\ BANDITS["haw"].total_selections >= 1
    /\ TotalCount(BANDITS["haw"]) >= 1

C14_ShowcaseUninitialized503 ==
    (pc = "idle" /\ response.endpoint = "/translate"
        /\ request.mode = "showcase" /\ Len(request.segments) >= 1
        /\ ~NoPack(request) /\ ~SHOWCASE_GENERATOR)
        => response.status = 503

(***************************************************************************)
(* Properties of scoring (checked under SpecScoring).                      *)
(***************************************************************************)
\* the entries of a score list whose metric is in the weight table
Shared(component_scores, weights) ==
    {i \in 1..Len(component_scores) :
        component_scores[i].name \in DOMAIN weights}

\* the sum of w_m and the sum of w_m * s_m over the shared entries
SharedWeight(component_scores, weights) ==
    SumValues([i \in 1..Len(component_scores) |->
                  weights[component_scores[i].name]],
              Shared(component_scores, weights))

SharedTotal(component_scores, weights) ==
    SumValues([i \in 1..Len(component_scores) |->
                  RMul(weights[component_scores[i].name],
                       component_scores[i].score)],
              Shared(component_scores, weights))

\* v is the sum of w_m * s_m divided by the sum of w_m, or 0 when the sum
\* of w_m is 0
IsWeightedMean(v, component_scores, weights) ==
    LET sw == SharedWeight(component_scores, weights)
    IN IF sw = Zero THEN v = Zero
       ELSE RMul(v, sw) = SharedTotal(component_scores, weights)

\* C15: score_text returns one entry per metric, in metric order; the
\* entry of a metric that raised has score 0 and details that carry the
\* error, every other entry is the metric's own result, and the aggregate
\* is the weighted mean over all the entries.
C15_FailedMetricScoresZero ==
    out.fn = "score_text" =>
        LET cs == out.component_scores
            ms == arg.metrics
        IN /\ Len(cs) = Len(ms)
           /\ \A i \in 1..Len(ms) :
                  /\ cs[i].name = ms[i]
                  /\ IF ms[i] \in RaisingMetrics
                     THEN /\ cs[i].score = Zero
                          /\ DOMAIN cs[i].details = {"error"}
                          /\ cs[i].details.error = "boom in " \o ms[i]
                     ELSE cs[i] = MetricResult(ms, i, arg.text)
           /\ IsWeightedMean(out.total_score, cs, arg.weights)

C15_Witness ==
    /\ out.fn = "score_text"
    /\ arg.metrics = <<"diacritics", "broken_a", "spelling">>
    /\ arg.text = Fluent
    /\ arg.weights = [diacritics |-> One, broken_a |-> One]
    /\ out.total_score = Half

\* C19: aggregate_scores returns the sum of w_m * s_m divided by the sum of
\* w_m over the entries whose metric is in the weight table (weights >= 0),
\* and 0 when that sum of weights is 0.
C19_WeightedMeanOfShared ==
    out.fn = "aggregate_scores" =>
        IsWeightedMean(out.value, arg.component_scores, arg.weights)

C19_Witness ==
    /\ out.fn = "aggregate_scores"
    /\ arg.component_scores = <<[name |-> "diacritics", score |-> One],
                                [name |-> "spelling", score |-> Zero]>>
    /\ arg.weights = [diacritics |-> Half, broken_a |-> One]
    /\ out.value = One

(***************************************************************************)
(* Properties of the generators (checked under SpecGenerator).             *)
(***************************************************************************)
ErrorStrings ==
    {"[Translation error: " \o UpstreamError \o "]", "Error: " \o UpstreamError}

\* C16: for the OpenAI and the bidirectional generator, when the upstream
\* call for candidate i of k fails, generate does not raise, candidate i of
\* the returned list is an error string, and all k upstream calls are made.
C16_FailedCallReplacedByErrorString ==
    out.fn \in {"OpenAIGenerator.generate", "BiDirectionalGenerator.generate"}
        => /\ out.raised = "none"
           /\ out.upstream_calls = arg.k
           /\ \A i \in 1..arg.k :
                  arg.upstream[i] = Raises =>
                      /\ i <= Len(out.candidates)
                      /\ out.candidates[i] \in ErrorStrings

\* the same, of the OpenAI generator alone
OpenAIFailedCallReplaced ==
    out.fn = "OpenAIGenerator.generate"
        => /\ out.raised = "none"
           /\ out.upstream_calls = arg.k
           /\ Len(out.candidates) = arg.k
           /\ \A i \in 1..arg.k :
                  arg.upstream[i] = Raises <=> out.candidates[i] \in ErrorStrings

(***************************************************************************)
(* Properties of the audit logger (checked under SpecLogger).              *)
(***************************************************************************)
EventTypes ==
    {"run_start", "config", "translation", "metric_eval", "bandit_update",
     "error", "run_end"}

\* the complete lines of a file: the texts that end with a newline
RECURSIVE LinesFrom(_, _)
LinesFrom(content, line) ==
    IF content = <<>> THEN <<>>
    ELSE IF Head(content) = NL
         THEN <<line>> \o LinesFrom(Tail(content), <<>>)
         ELSE LinesFrom(Tail(content), Append(line, Head(content)))

Lines(content) == LinesFrom(content, <<>>)

\* what follows the last newline of a file
RECURSIVE Unfinished(_)
Unfinished(content) ==
    IF content = <<>> \/ content[Len(content)] = NL THEN <<>>
    ELSE Append(Unfinished(SubSeq(content, 1, Len(content) - 1)),
                content[Len(content)])

\* reading the characters between the quotes of a JSON string; BadString for
\* a quote or a backslash that is not part of an escape
BadString == <<"<invalid>">>
Invalid == [type |-> "<invalid>", timestamp |-> "", payload |-> <<>>]

RECURSIVE Unescaped(_)
Unescaped(chars) ==
    IF chars = <<>> THEN <<>>
    ELSE IF Head(chars) = QUOTE THEN BadString
    ELSE IF Head(chars) = BACKSLASH
         THEN IF Len(chars) < 2 \/ chars[2] \notin {"n", QUOTE, BACKSLASH}
              THEN BadString
              ELSE LET rest == Unescaped(SubSeq(chars, 3, Len(chars)))
                   IN IF rest = BadString THEN BadString
                      ELSE <<IF chars[2] = "n" THEN NL ELSE chars[2]>> \o rest
         ELSE LET rest == Unescaped(Tail(chars))
              IN IF rest = BadString THEN BadString ELSE <<Head(chars)>> \o rest

\* json.loads of one line: the event, or Invalid
json_loads(line) ==
    IF /\ Len(line) >= 11
       /\ SubSeq(line, 1, 2) = <<"{", "type:">>
       /\ SubSeq(line, 4, 5) = <<",", "timestamp:">>
       /\ SubSeq(line, 7, 9) = <<",", "payload:", QUOTE>>
       /\ SubSeq(line, Len(line) - 1, Len(line)) = <<QUOTE, "}">>
       /\ Unescaped(SubSeq(line, 10, Len(line) - 2)) # BadString
    THEN [type |-> line[3], timestamp |-> line[6],
          payload |-> Unescaped(SubSeq(line, 10, Len(line) - 2))]
    ELSE Invalid

C18_AppendOnlyOneLine ==
    [][ /\ \A f \in DOMAIN files :
              /\ f \in DOMAIN files'
              /\ IsPrefix(files[f], files'[f])
        /\ \E g \in DOMAIN files' :
              /\ Len(Lines(files'[g])) =
                    (IF g \in DOMAIN files THEN Len(Lines(files[g])) ELSE 0) + 1
              /\ \A f \in DOMAIN files' \ {g} :
                     f \in DOMAIN files /\ files'[f] = files[f] ]_vars

\* a second logger was constructed on the run_id of a file that already
\* held events, and logging went on after that
C18_Witness ==
    \E f \in DOMAIN files :
        LET ls == Lines(files[f])
        IN /\ Len(ls) >= 4
           /\ json_loads(ls[1]).type = "run_start"
           /\ json_loads(ls[2]).type # "run_start"
           /\ json_loads(ls[3]).type = "run_start"
           /\ json_loads(ls[4]).type = "run_end"

(***************************************************************************)
(* Properties of the metrics (checked under SpecMetrics).                  *)
(***************************************************************************)
MetricNames ==
    {"diacritics", "tam_particles", "articles_ke_ka", "articles_a_an",
     "subject_verb_agreement", "spelling", "punctuation"}

MetricFns ==
    {"Diacritics.score", "TAMParticles.score", "ArticlesKeKa.score",
     "ArticlesAAn.score", "SpellingChecker.score",
     "SubjectVerbAgreement.score", "PunctuationChecker.score"}

\* C20: the score that a metric returns for a text lies between 0 and 1,
\* also when the metric finds more errors than it counts checks.
C20_ScoreInUnitInterval ==
    out.fn \in MetricFns
        => /\ out.name \in MetricNames
           /\ RLe(Zero, out.score)
           /\ RLe(out.score, One)

\* the punctuation metric found more errors than it counted checks
C20_Witness ==
    /\ out.fn = "PunctuationChecker.score"
    /\ arg.text = <<"a", "A", " ", "a", "A">>
    /\ out.errors > out.checked
    /\ out.score = Zero

\* C21: a second evaluation of a metric on the same text with the same
\* resources returns the same result as the first, in whatever order the
\* sets of the metric are iterated; for Diacritics, in whatever order the
\* required forms are iterated.
C21_MetricsDeterministic ==
    /\ out.fn = "Diacritics.score" =>
          \A order \in Orders(lex_diacritics) :
              LET again == DiacriticsScore(arg.text, order)
              IN /\ again.score = out.score
                 /\ again.checked = out.checked
                 /\ again.errors = out.errors
    /\ out.fn = "ArticlesKeKa.score" =>
          ArticlesKeKaScore(arg.text).score = out.score
    /\ out.fn = "TAMParticles.score" =>
          TAMParticlesScore(arg.text).score = out.score
    /\ out.fn = "ArticlesAAn.score" =>
          ArticlesAAnScore(arg.text).score = out.score
    /\ out.fn = "SpellingChecker.score" =>
          SpellingCheckerScore(arg.text).score = out.score
    /\ out.fn = "SubjectVerbAgreement.score" =>
          SubjectVerbAgreementScore(arg.text).score = out.score
    /\ out.fn = "PunctuationChecker.score" =>
          PunctuationCheckerScore(arg.text).score = out.score

\* the patterns of a table that are found in the text
Found(table, words) == Cardinality({p \in table : Search(p, words)})

KeaoPairs(words) ==
    {i \in 1..(Len(words) - 1) : lower(words[i]) \in {<<"k", "e">>, <<"k", "a">>}}

KeaoCorrect(words) ==
    {i \in KeaoPairs(words) :
        LET next_word == lower(_normalize_word(words[i + 1]))
            takes_ke == \/ next_word \in ke_exceptions
                        \/ /\ next_word # <<>>
                           /\ next_word[1] \in {"k", "e", "a", "o"}
        IN lower(words[i]) = (IF takes_ke THEN <<"k", "e">> ELSE <<"k", "a">>)}

\* C27: a pair of ke or ka and the next word is correct iff the article is
\* ke when the next word begins with k, e, a or o or is an exception, and
\* ka otherwise; the score is correct / checked, and 1 without a pair.
C27_KeaoRule ==
    out.fn = "ArticlesKeKa.score" =>
        /\ out.checked = Cardinality(KeaoPairs(arg.text))
        /\ out.checked - out.errors = Cardinality(KeaoCorrect(arg.text))
        /\ out.score = IF KeaoPairs(arg.text) = {} THEN One
                       ELSE Norm(<<Cardinality(KeaoCorrect(arg.text)),
                                   Cardinality(KeaoPairs(arg.text))>>)

(***************************************************************************)
(* Properties of the gym runner (checked under SpecGym).                   *)
(***************************************************************************)
\* C23: the history of the bandit in memory never holds more than the N =
\* 100 entries that save_state keeps.
C23_HistoryBounded == Len(bandit.history) <= HistoryTail

(***************************************************************************)
(* Audit events of the request path (checked under Spec).                  *)
(***************************************************************************)
\* the types of the events of an audit log file, in the order of the file
TypesIn(content) ==
    [i \in 1..Len(Lines(content)) |-> json_loads(Lines(content)[i]).type]

\* C24: once the result of a segment processed outside showcase mode has
\* been stored, the audit log holds a translation event and, after it, a
\* bandit_update event.
C24_SegmentsAreAudited ==
    (request.mode \in {"standard", "rlvr"} /\ Len(results) > 0) =>
        \E f \in DOMAIN files :
            \E i, j \in 1..Len(TypesIn(files[f])) :
                /\ i < j
                /\ TypesIn(files[f])[i] = "translation"
                /\ TypesIn(files[f])[j] = "bandit_update"

\* C28: a language code is in LANG_CONFIGS exactly when it is in METRICS,
\* in GENERATORS and in BANDITS, also after an initialize_language that
\* failed.
C28_LanguageAllOrNothing ==
    /\ DOMAIN LANG_CONFIGS = DOMAIN METRICS
    /\ DOMAIN LANG_CONFIGS = DOMAIN GENERATORS
    /\ DOMAIN LANG_CONFIGS = DOMAIN BANDITS

\* C29: every bandit.update of /translate (standard mode: the base prompt,
\* rlvr mode: the picked prompt) names a prompt of the bandit of the target
\* language, and no /translate request ends with the unknown-prompt
\* ValueError.
C29_UpdateNamesKnownPrompt ==
    /\ (pc = "ranked" /\ request.mode # "showcase") =>
           \E i \in 1..Len(BANDITS[request.tgt].prompts) :
               BANDITS[request.tgt].prompts[i] = prompt
    /\ response.endpoint = "/translate" => response.raised # "ValueError"

\* a standard-mode and an rlvr-mode segment whose update was applied
C29_Witness ==
    /\ pc = "loop"
    /\ request.mode = "standard"
    /\ Len(results) = 1
    /\ results[1].prompt = LANG_CONFIGS[request.tgt].prompt_template
    /\ \E i \in 1..Len(BANDITS[request.tgt].history) :
           LET e == BANDITS[request.tgt].history[i]
           IN e.type = "update" /\ e.prompt # results[1].prompt

\* C30: when the processing of segment j of a /translate request raises,
\* nothing is rolled back: the step that fails leaves every bandit as it is,
\* the bandit of the target language holds what it held when segment j
\* began (with the pick and the update of each of the segments 1..j-1 as
\* the last entries of its history) plus, in rlvr mode, the pick of segment
\* j with its total_selections increment and without an update, and the
\* response holds no result.
C30_NoRollbackOnFailure ==
    [][(pc \in {"loop", "picked", "generated", "ranked"} /\ pc' = "idle"
            /\ response'.status = 500)
        => LET b == BANDITS'[request.tgt]
               h == b.history
               n == Len(segStart'.history)
               picks == IF request.mode = "rlvr" THEN 1 ELSE 0
           IN /\ response'.results = <<>>
              /\ BANDITS' = BANDITS
              /\ b.counts = segStart'.counts
              /\ b.values = segStart'.values
              /\ b.total_selections = segStart'.total_selections + picks
              /\ Len(h) = n + picks
              /\ SubSeq(h, 1, n) = segStart'.history
              /\ request.mode = "rlvr" =>
                     /\ h[n + 1].type \in {"explore", "exploit"}
                     /\ n >= 2 * (seg - 1)
                     /\ \A m \in 1..(seg - 1) :
                            /\ h[n - 2 * m + 1].type \in {"explore", "exploit"}
                            /\ h[n - 2 * m + 2].type = "update"
                            /\ h[n - 2 * m + 2].prompt = h[n - 2 * m + 1].prompt]_vars

\* an rlvr request whose second segment failed after its first was done
C30_Witness ==
    /\ pc = "idle"
    /\ request.mode = "rlvr"
    /\ Len(request.segments) = 2
    /\ response.endpoint = "/translate"
    /\ response.status = 500
    /\ response.raised = "IndexError"
    /\ response.results = <<>>
    /\ BANDITS[request.tgt].total_selections = 2
    /\ Len(BANDITS[request.tgt].history) = 3
    /\ BANDITS[request.tgt].history[2].type = "update"

(***************************************************************************)
(* The logger on a failing disk (checked under SpecLoggerIO).              *)
(***************************************************************************)
\* C25: a logging call (log_config, log_translation, log_bandit_update,
\* log_error, finalize) whose write fails with an I/O error does not raise
\* to its caller.
C25_LoggingCallsDoNotRaise ==
    out.fn \in LoggingCalls \ {"log_metric_evaluation"} => out.raised = "none"

(***************************************************************************)
(* Requests in flight at once (checked under SpecLoop).                    *)
(***************************************************************************)
\* C22: while a segment of a request is between its pick and its update,
\* the pick is the last entry of the history of the shared bandit: no pick
\* and no update of another segment has been applied to the bandit since.
C22_PickUpdateSerialized ==
    \A i \in 1..Len(tasks) :
        (tasks[i].mode = "rlvr" /\ tasks[i].pc \in MidPair) =>
            LET h == BANDITS[LoopLang].history
            IN /\ Len(h) = tasks[i].mark
               /\ h[Len(h)].type \in {"explore", "exploit"}
               /\ h[Len(h)].prompt = tasks[i].prompt

\* a request that arrived while a segment of another request was between
\* its pick and its update, now itself between a pick and its update
C22_Witness ==
    \E i \in 1..Len(tasks) :
        /\ tasks[i].overlapped
        /\ tasks[i].mode = "rlvr"
        /\ tasks[i].pc = "ranked"
        /\ Len(BANDITS[LoopLang].history) >= 3

====
